---- MODULE Spec2Model ----
(***************************************************************************)
(* Participation & Reward Ledger of the event backend.                     *)
(*                                                                         *)
(* The relational store is modelled table by table: a table is a bag of    *)
(* rows, a Prisma where-clause is a filter over the bag, an aggregate is a *)
(* sum over the filtered bag.  One event is modelled; every query of the   *)
(* handlers is filtered by its eventId.                                    *)
(***************************************************************************)
EXTENDS Integers, Sequences, FiniteSets, Bags, TLC

VARIABLES
  eventGroup,          \* EventParticipant.eventGroup by userId ("NONE": no row)
  isLeader,            \* EventParticipant.isLeader by userId
  teamId,              \* EventParticipant.teamId by userId (Null: no team)
  virtualReward,       \* EventParticipant.virtualReward by userId
  event,               \* the Event row: role budgets and per-team cap fields
  active,              \* startView <= now <= endView at the time of a request
  teams,               \* ids of the Team rows of the event
  teamReward,          \* bag of TeamReward rows
  teamRewardCategory,  \* bag of TeamRewardCategory rows
  specialRewardVote,   \* bag of SpecialRewardVote rows
  comment,             \* bag of Comment rows
  eventRating,         \* bag of EventRating rows
  req                  \* the requests in flight (statement-level specifications)

vars == <<eventGroup, isLeader, teamId, virtualReward, event, active, teams,
          teamReward, teamRewardCategory, specialRewardVote, comment, eventRating,
          req>>

partVars == <<eventGroup, isLeader, teamId, virtualReward>>
ledgerVars == <<teamReward, teamRewardCategory>>
feedbackVars == <<comment, eventRating>>

----------------------------------------------------------------------------
(* Bounds and populations *)

MaxAmount == 2      \* amounts of a give payload are 0..MaxAmount
MaxBudget == 2      \* budgets an organizer enters are 0..MaxBudget

Null == "null"            \* a null teamId
None == <<>>              \* a null or absent number or flag; <<x>> when present
Some(x) == <<x>>

Users == {"o1", "g1", "g2", "p1", "p2", "p3"}
TeamIds == {"tA", "tB"}
Categories == {"c1"}          \* VrCategory rows of the event
CategoryIds == {"c1", "cX"}   \* "cX": an id that is no category of the event
Rewards == {"r1", "r2"}       \* SpecialReward rows of the event
Groups == {"ORGANIZER", "PRESENTER", "COMMITTEE", "GUEST"}

----------------------------------------------------------------------------
(* Bags of rows *)

\* the sum of the second components of a set of <<row, number>> pairs
RECURSIVE SumPairs(_)
SumPairs(S) ==
  IF S = {} THEN 0
  ELSE LET x == CHOOSE y \in S : TRUE
       IN  x[2] + SumPairs(S \ {x})

\* prisma.<table>.aggregate({ where, _sum }) ; "|| 0" for the empty sum
SumBag(B, F(_)) == SumPairs({<<r, B[r] * F(r)>> : r \in DOMAIN B})

\* the rows of a table a where-clause selects
Where(B, Test(_)) ==
  LET D == {r \in DOMAIN B : Test(r)} IN [r \in D |-> B[r]]

\* prisma.<table>.deleteMany({ where })
DeleteMany(B, Test(_)) == Where(B, LAMBDA r : ~Test(r))

\* prisma.<table>.create({ data })
Create(B, row) == B (+) SetToBag({row})

\* prisma.<table>.delete({ where: { id } }) : one row
DeleteOne(B, row) == B (-) SetToBag({row})

RowsOf(B) == BagToSet(B)

----------------------------------------------------------------------------
(* PUT /give-vr and POST /reset-vr *)

\* a view of the two reward tables, as the statements of a transaction see them
View(tr, trc) == [tr |-> tr, trc |-> trc]

IsGiver(u) == eventGroup[u] \in {"GUEST", "COMMITTEE"}

\* the participant row (with its event) the handler reads before its transaction
Participant(u) ==
  [userId |-> u, eventGroup |-> eventGroup[u],
   virtualReward |-> virtualReward[u], event |-> event]

\* categories.reduce(...) into a Map: categoryId -> summed amount
RECURSIVE NormalizedCategories(_)
NormalizedCategories(categories) ==
  IF categories = <<>> THEN <<>>
  ELSE LET n == Len(categories)
           acc == NormalizedCategories(SubSeq(categories, 1, n - 1))
           r == categories[n]
           has == \E i \in 1..Len(acc) : acc[i][1] = r[1]
       IN  IF has
           THEN [i \in 1..Len(acc) |->
                   IF acc[i][1] = r[1] THEN <<r[1], acc[i][2] + r[2]>> ELSE acc[i]]
           ELSE Append(acc, r)

RECURSIVE SeqSum(_)
SeqSum(s) == IF s = <<>> THEN 0 ELSE s[1][2] + SeqSum(Tail(s))

UsingCategories(payload) == payload.mode = "categories"

TotalAmount(payload) ==
  IF UsingCategories(payload)
  THEN SeqSum(NormalizedCategories(payload.categories))
  ELSE payload.amount

\* aggregates without the giverId of their where clause
TotalUsedOthersOfAll(v, u, t) ==
  SumBag(Where(v.tr, LAMBDA r : r.teamId # t), LAMBDA r : r.reward)
  + SumBag(Where(v.trc, LAMBDA r : r.teamId # t), LAMBDA r : r.amount)

TotalUsedOthers(v, u, t) ==
  SumBag(Where(v.tr, LAMBDA r : r.giverId = u /\ r.teamId # t), LAMBDA r : r.reward)
  + SumBag(Where(v.trc, LAMBDA r : r.giverId = u /\ r.teamId # t), LAMBDA r : r.amount)

\* a balance check that forgets the categorized rows the giver holds on this team
NoCategoryRewards(v, u, t, payload) == 0

ThisTeamCategoryRewards(v, u, t, payload) ==
  IF UsingCategories(payload) THEN 0
  ELSE SumBag(Where(v.trc, LAMBDA r : r.giverId = u /\ r.teamId = t),
              LAMBDA r : r.amount)

\* a balance check that forgets what the giver holds on the other teams
NewTotalUsedThisTeamOnly(v, u, t, payload) ==
  ThisTeamCategoryRewards(v, u, t, payload) + TotalAmount(payload)

NewTotalUsed(v, u, t, payload) ==
  TotalUsedOthers(v, u, t) + ThisTeamCategoryRewards(v, u, t, payload)
  + TotalAmount(payload)

CapOf(p) ==
  IF p.eventGroup = "COMMITTEE" THEN p.event.vrTeamCapCommittee
  ELSE p.event.vrTeamCapGuest

\* the checks of the transaction body, in the order of the code; "ok" when none throws
GiveCheck(v, p, t, payload) ==
  IF UsingCategories(payload)
     /\ \E i \in 1..Len(NormalizedCategories(payload.categories)) :
           NormalizedCategories(payload.categories)[i][1] \notin Categories
    THEN "CategoryNotFound"
  ELSE IF p.event.vrTeamCapEnabled /\ CapOf(p) # None
          /\ TotalAmount(payload) > CapOf(p)[1]
    THEN "ExceedsTeamCap"
  ELSE IF NewTotalUsed(v, p.userId, t, payload) > p.virtualReward
    THEN "InsufficientBalance"
  ELSE "ok"

\* a categorized branch that leaves the flat row of the team in place
ApplyCategoriesKeepingFlat(v, u, t, payload) ==
  LET nc == NormalizedCategories(payload.categories)
      rows == {[giverId |-> u, teamId |-> t, categoryId |-> nc[i][1], amount |-> nc[i][2]] :
                 i \in {j \in 1..Len(nc) : nc[j][2] > 0}}
  IN  View(v.tr, DeleteMany(v.trc, LAMBDA r : r.giverId = u /\ r.teamId = t)
                   (+) SetToBag(rows))

\* categorized branch: deleteMany, createMany of the rows with amount > 0,
\* deleteMany of the flat rows
ApplyCategories(v, u, t, payload) ==
  LET nc == NormalizedCategories(payload.categories)
      rows == {[giverId |-> u, teamId |-> t, categoryId |-> nc[i][1], amount |-> nc[i][2]] :
                 i \in {j \in 1..Len(nc) : nc[j][2] > 0}}
      mine(r) == r.giverId = u /\ r.teamId = t
  IN  View(DeleteMany(v.tr, mine), DeleteMany(v.trc, mine) (+) SetToBag(rows))

\* a flat branch that adds the amount to the reward of the row it finds
ApplyFlatAdding(v, u, t, payload) ==
  LET found == RowsOf(Where(v.tr, LAMBDA r : r.giverId = u /\ r.teamId = t))
      new == [giverId |-> u, teamId |-> t, reward |-> payload.amount]
  IN  IF found # {}
      THEN LET existingReward == CHOOSE r \in found : TRUE
           IN  View(Create(DeleteOne(v.tr, existingReward),
                           [new EXCEPT !.reward = existingReward.reward + payload.amount]),
                    v.trc)
      ELSE IF payload.amount > 0 THEN View(Create(v.tr, new), v.trc)
      ELSE v

\* flat branch: findFirst, then delete / update / create
ApplyFlat(v, u, t, payload) ==
  LET found == RowsOf(Where(v.tr, LAMBDA r : r.giverId = u /\ r.teamId = t))
      new == [giverId |-> u, teamId |-> t, reward |-> payload.amount]
  IN  IF found # {}
      THEN LET existingReward == CHOOSE r \in found : TRUE
           IN  IF payload.amount = 0
               THEN View(DeleteOne(v.tr, existingReward), v.trc)
               ELSE View(Create(DeleteOne(v.tr, existingReward), new), v.trc)
      ELSE IF payload.amount > 0 THEN View(Create(v.tr, new), v.trc)
      ELSE v

GiveApply(v, u, t, payload) ==
  IF UsingCategories(payload) THEN ApplyCategories(v, u, t, payload)
  ELSE ApplyFlat(v, u, t, payload)

\* usedRewards + usedCategoryRewards of the response
TotalUsed(v, u) ==
  SumBag(Where(v.tr, LAMBDA r : r.giverId = u), LAMBDA r : r.reward)
  + SumBag(Where(v.trc, LAMBDA r : r.giverId = u), LAMBDA r : r.amount)

\* what a request answers: its kind ("ok" or the error) and, where the handler
\* returns them, <<totalLimit, totalUsed>>
Response(kind, totals) == [kind |-> kind, totals |-> totals]

----------------------------------------------------------------------------
(* Inputs *)

Absent == "absent"

FlatPayloads == {[mode |-> "flat", amount |-> a, categories |-> <<>>] : a \in 0..MaxAmount}

CategoryArrays ==
  {<<>>, <<<<"cX", 1>>>>, <<<<"c1", 1>>, <<"c1", 1>>>>}
    \cup {<<<<"c1", a>>>> : a \in 0..MaxAmount}

CategoryPayloads == {[mode |-> "categories", amount |-> 0, categories |-> cs] : cs \in CategoryArrays}

\* neither or both of amount and categories: refused by giveVrSchema's refine
InvalidPayload == [mode |-> "invalid", amount |-> 0, categories |-> <<>>]

Payloads == FlatPayloads \cup CategoryPayloads \cup {InvalidPayload}

----------------------------------------------------------------------------
(* Whole handlers, one request at a time *)

Committed == View(teamReward, teamRewardCategory)

GiveKindAnyTime(v, u, t, payload) ==
  IF payload.mode = "invalid" THEN "InvalidInput"
  ELSE IF ~IsGiver(u) THEN "Forbidden"
  ELSE IF t \notin teams THEN "NotFound"
  ELSE GiveCheck(v, Participant(u), t, payload)

\* PUT /:eventId/action/give-vr : the answer on the reward tables v
GiveKind(v, u, t, payload) ==
  IF payload.mode = "invalid" THEN "InvalidInput"
  ELSE IF ~IsGiver(u) THEN "Forbidden"
  ELSE IF ~active THEN "EventNotActive"
  ELSE IF t \notin teams THEN "NotFound"
  ELSE GiveCheck(v, Participant(u), t, payload)

\* the reward tables after the request
GiveView(v, u, t, payload) ==
  IF GiveKind(v, u, t, payload) = "ok" THEN GiveApply(v, u, t, payload) ELSE v

GiveResponse(v, u, t, payload) ==
  IF GiveKind(v, u, t, payload) = "ok"
  THEN Response("ok", <<virtualReward[u], TotalUsed(GiveView(v, u, t, payload), u)>>)
  ELSE Response(GiveKind(v, u, t, payload), None)

Give(u, t, payload) ==
  /\ teamReward' = GiveView(Committed, u, t, payload).tr
  /\ teamRewardCategory' = GiveView(Committed, u, t, payload).trc
  /\ UNCHANGED <<partVars, event, active, feedbackVars, teams, specialRewardVote, req>>

\* const totalGiven = ...
TotalGiven(v, u, t) ==
  SumBag(Where(v.tr, LAMBDA r : r.giverId = u /\ r.teamId = t), LAMBDA r : r.reward)
  + SumBag(Where(v.trc, LAMBDA r : r.giverId = u /\ r.teamId = t), LAMBDA r : r.amount)

\* a reset that deletes the flat rows only
ResetApplyFlatOnly(v, u, t) ==
  View(DeleteMany(v.tr, LAMBDA r : r.giverId = u /\ r.teamId = t), v.trc)

\* the two deleteMany of the reset transaction
ResetApply(v, u, t) ==
  View(DeleteMany(v.tr, LAMBDA r : r.giverId = u /\ r.teamId = t),
       DeleteMany(v.trc, LAMBDA r : r.giverId = u /\ r.teamId = t))

\* POST /:eventId/action/reset-vr : the answer on the reward tables v
ResetKind(v, u, t) ==
  IF ~IsGiver(u) THEN "Forbidden"
  ELSE IF ~active THEN "EventNotActive"
  ELSE IF TotalGiven(v, u, t) = 0 THEN "NoOp"
  ELSE "ok"

ResetView(v, u, t) ==
  IF ResetKind(v, u, t) = "ok" THEN ResetApply(v, u, t) ELSE v

ResetResponse(v, u, t) ==
  IF ResetKind(v, u, t) = "ok"
  THEN Response("ok", <<virtualReward[u], TotalUsed(ResetView(v, u, t), u)>>)
  ELSE Response(ResetKind(v, u, t), None)

Reset(u, t) ==
  /\ teamReward' = ResetView(Committed, u, t).tr
  /\ teamRewardCategory' = ResetView(Committed, u, t).trc
  /\ UNCHANGED <<partVars, event, active, feedbackVars, teams, specialRewardVote, req>>

----------------------------------------------------------------------------
(* Referential integrity of the store *)

\* a store whose rows stay when their Team row is deleted
TeamKeepsRows(B, t) == B

\* the rows of a table that go with a deleted Team row
TeamDeleteRows(B, t) == DeleteMany(B, LAMBDA r : r.teamId = t)

\* a row may reference a team only while the Team row exists
TeamFk(ts, t) == t = Null \/ t \in ts

----------------------------------------------------------------------------
(* PUT /:id/participants/:pid *)

Body(eg, lead, vr, team) ==
  [eventGroup |-> eg, isLeader |-> lead, virtualReward |-> vr, teamId |-> team]

OrElse(opt, d) == IF opt = None THEN d ELSE opt[1]

Max(a, b) == IF a >= b THEN a ELSE b

\* data.virtualReward: the role default, overridden by body.virtualReward
DataVirtualReward(body) ==
  IF body.virtualReward # None THEN Some(Max(0, body.virtualReward[1]))
  ELSE IF body.eventGroup \in {"ORGANIZER", "PRESENTER"} THEN Some(0)
  ELSE IF body.eventGroup = "COMMITTEE" THEN Some(OrElse(event.virtualRewardCommittee, 0))
  ELSE IF body.eventGroup = "GUEST" THEN Some(OrElse(event.virtualRewardGuest, 0))
  ELSE None

\* prisma.eventParticipant.findFirst({ where: { id: pid, eventId: id } })
Existing(pid) ==
  [id |-> pid, eventGroup |-> eventGroup[pid], isLeader |-> isLeader[pid],
   teamId |-> teamId[pid]]

RoleChanges(existing, body) ==
  body.eventGroup \in Groups /\ body.eventGroup # existing.eventGroup

\* "If role changes, reset scores/rewards given by this user"
PurgedTeamReward(existing, body) ==
  IF RoleChanges(existing, body)
  THEN DeleteMany(teamReward, LAMBDA r : r.giverId = existing.id)
  ELSE teamReward

PurgedVotes(existing, body) ==
  IF RoleChanges(existing, body)
  THEN DeleteMany(specialRewardVote, LAMBDA r : r.committeeId = existing.id)
  ELSE specialRewardVote

\* the 403 answers without "Organizer leader cannot manage self"
UpdateForbiddenNoSelf(actor, leads, existing, body) ==
  IF existing.eventGroup = "ORGANIZER"
  THEN ~leads \/ body.isLeader # None
  ELSE ~leads /\ body.eventGroup = "ORGANIZER"

\* the 403 answers that follow the purge; leads: organizer.isLeader
UpdateForbidden(actor, leads, existing, body) ==
  IF existing.eventGroup = "ORGANIZER"
  THEN ~leads \/ existing.id = actor \/ body.isLeader # None
  ELSE ~leads /\ body.eventGroup = "ORGANIZER"

LeavesPresenter(existing, body) ==
  /\ existing.eventGroup = "PRESENTER"
  /\ body.eventGroup \in Groups /\ body.eventGroup # "PRESENTER"
  /\ existing.teamId # Null

LeaderLeaves(existing, body) == LeavesPresenter(existing, body) /\ existing.isLeader

\* the data of the final prisma.eventParticipant.update
DataTeam(existing, body) ==
  IF LeavesPresenter(existing, body) THEN Null
  ELSE IF body.teamId = Absent THEN existing.teamId ELSE body.teamId

DataLeader(existing, body) ==
  IF LeaderLeaves(existing, body) THEN FALSE ELSE OrElse(body.isLeader, existing.isLeader)

DataGroup(existing, body) ==
  IF body.eventGroup \in Groups THEN body.eventGroup ELSE existing.eventGroup

\* an updateMany that detaches nobody
KeptTeamId(t) == teamId

\* prisma.eventParticipant.updateMany({ where: { teamId }, data: { teamId: null, isLeader: false } })
UnlinkedTeamId(t) == [m \in Users |-> IF teamId[m] = t THEN Null ELSE teamId[m]]

UnlinkedLeader(t) == [m \in Users |-> IF teamId[m] = t THEN FALSE ELSE isLeader[m]]

UpdateParticipant(actor, pid, body) ==
  LET existing == Existing(pid)
      dataTeam == DataTeam(existing, body)
      dataVr == OrElse(DataVirtualReward(body), virtualReward[pid])
      gone == IF LeaderLeaves(existing, body) THEN existing.teamId ELSE Null
      teamsAfter == teams \ {gone}
      unlinkedTeam == IF gone = Null THEN teamId ELSE UnlinkedTeamId(gone)
      unlinkedLead == IF gone = Null THEN isLeader ELSE UnlinkedLeader(gone)
  IN  IF eventGroup[actor] # "ORGANIZER"
      THEN UNCHANGED vars
      ELSE IF eventGroup[pid] = "NONE"
      THEN UNCHANGED vars
      ELSE IF UpdateForbidden(actor, isLeader[actor], existing, body)
      THEN /\ teamReward' = PurgedTeamReward(existing, body)
           /\ specialRewardVote' = PurgedVotes(existing, body)
           /\ UNCHANGED <<partVars, event, active, feedbackVars, teams, teamRewardCategory, req>>
      ELSE /\ teams' = teamsAfter
           /\ teamReward' =
                IF gone = Null THEN PurgedTeamReward(existing, body)
                ELSE TeamDeleteRows(PurgedTeamReward(existing, body), gone)
           /\ teamRewardCategory' =
                IF gone = Null THEN teamRewardCategory
                ELSE TeamDeleteRows(teamRewardCategory, gone)
           /\ specialRewardVote' =
                IF gone = Null THEN PurgedVotes(existing, body)
                ELSE TeamDeleteRows(PurgedVotes(existing, body), gone)
           /\ IF TeamFk(teamsAfter, dataTeam)
              THEN /\ eventGroup' = [eventGroup EXCEPT ![pid] = DataGroup(existing, body)]
                   /\ virtualReward' = [virtualReward EXCEPT ![pid] = dataVr]
                   /\ teamId' = [unlinkedTeam EXCEPT ![pid] = dataTeam]
                   /\ isLeader' = [unlinkedLead EXCEPT ![pid] = DataLeader(existing, body)]
              ELSE /\ teamId' = unlinkedTeam
                   /\ isLeader' = unlinkedLead
                   /\ UNCHANGED <<eventGroup, virtualReward>>
           /\ comment' = IF gone = Null THEN comment ELSE TeamDeleteRows(comment, gone)
           /\ UNCHANGED <<event, active, eventRating, req>>

----------------------------------------------------------------------------
(* PUT /:id : the budgets of the event *)

\* data.virtualRewardGuest / data.virtualRewardCommittee of the JSON body: the
\* body's number, else the event's current value
EventData(bodyGuest, bodyCommittee) ==
  [virtualRewardGuest |-> IF bodyGuest # None THEN bodyGuest ELSE event.virtualRewardGuest,
   virtualRewardCommittee |->
     IF bodyCommittee # None THEN bodyCommittee ELSE event.virtualRewardCommittee]

\* "Update existing participants if rewards changed"
PropagatedReward(u, data) ==
  IF eventGroup[u] = "GUEST" /\ data.virtualRewardGuest # None
    THEN data.virtualRewardGuest[1]
  ELSE IF eventGroup[u] = "COMMITTEE" /\ data.virtualRewardCommittee # None
    THEN data.virtualRewardCommittee[1]
  ELSE virtualReward[u]

UpdateEvent(actor, bodyGuest, bodyCommittee) ==
  LET data == EventData(bodyGuest, bodyCommittee)
  IN  IF eventGroup[actor] # "ORGANIZER"
      THEN UNCHANGED vars
      ELSE /\ event' = [event EXCEPT !.virtualRewardGuest = data.virtualRewardGuest,
                                     !.virtualRewardCommittee = data.virtualRewardCommittee]
           /\ virtualReward' = [u \in Users |-> PropagatedReward(u, data)]
           /\ UNCHANGED <<eventGroup, isLeader, teamId, active, feedbackVars, teams, ledgerVars,
                          specialRewardVote, req>>

----------------------------------------------------------------------------
(* DELETE /:id/teams/:teamId *)

\* "Only leader can delete ... Or organizer?"
MayDeleteTeam(actor, t) ==
  \/ eventGroup[actor] # "NONE" /\ teamId[actor] = t /\ isLeader[actor]
  \/ eventGroup[actor] = "ORGANIZER"

DeleteTeam(actor, t) ==
  IF ~MayDeleteTeam(actor, t) \/ t \notin teams
  THEN UNCHANGED vars
  ELSE /\ teamId' = UnlinkedTeamId(t)
       /\ isLeader' = UnlinkedLeader(t)
       /\ teams' = teams \ {t}
       /\ teamReward' = TeamDeleteRows(teamReward, t)
       /\ teamRewardCategory' = TeamDeleteRows(teamRewardCategory, t)
       /\ specialRewardVote' = TeamDeleteRows(specialRewardVote, t)
       /\ comment' = TeamDeleteRows(comment, t)
       /\ UNCHANGED <<eventGroup, virtualReward, event, active, eventRating, req>>

----------------------------------------------------------------------------
(* POST /:id/teams, POST and DELETE /:id/teams/:teamId/members,
   DELETE /:id/participants/:pid *)

\* prisma.eventParticipant.count({ where: { teamId } })
CurrentMembers(t) == Cardinality({m \in Users : eventGroup[m] # "NONE" /\ teamId[m] = t})

\* t: the id prisma.team.create gives the new Team row
CreateTeam(actor, t) ==
  IF eventGroup[actor] = "NONE" \/ teamId[actor] # Null
  THEN UNCHANGED vars
  ELSE IF event.maxTeams # None /\ event.maxTeams[1] # 0
          /\ Cardinality(teams) >= event.maxTeams[1]
  THEN UNCHANGED vars
  ELSE /\ t \notin teams
       /\ teams' = teams \cup {t}
       /\ teamId' = [teamId EXCEPT ![actor] = t]
       /\ isLeader' = [isLeader EXCEPT ![actor] = TRUE]
       /\ UNCHANGED <<eventGroup, virtualReward, event, active, feedbackVars, ledgerVars,
                      specialRewardVote, req>>

AddMember(actor, t, target) ==
  IF eventGroup[actor] = "NONE" \/ teamId[actor] # t \/ ~isLeader[actor]
  THEN UNCHANGED vars
  ELSE IF event.maxTeamMembers # None /\ CurrentMembers(t) >= event.maxTeamMembers[1]
  THEN UNCHANGED vars
  ELSE IF eventGroup[target] = "NONE" \/ teamId[target] # Null
          \/ eventGroup[target] # "PRESENTER"
  THEN UNCHANGED vars
  ELSE /\ teamId' = [teamId EXCEPT ![target] = t]
       /\ UNCHANGED <<eventGroup, isLeader, virtualReward, event, active, feedbackVars, teams,
                      ledgerVars, specialRewardVote, req>>

\* a handler without "Only leader can remove other members"
RemoveMemberByAnyMember(actor, t, target) ==
  IF eventGroup[actor] = "NONE" \/ teamId[actor] # t
  THEN UNCHANGED vars
  ELSE IF eventGroup[target] = "NONE" \/ teamId[target] # t
  THEN UNCHANGED vars
  ELSE IF isLeader[target]
  THEN UNCHANGED vars
  ELSE /\ teamId' = [teamId EXCEPT ![target] = Null]
       /\ UNCHANGED <<eventGroup, isLeader, virtualReward, event, active, feedbackVars, teams,
                      ledgerVars, specialRewardVote, req>>

RemoveMember(actor, t, target) ==
  IF eventGroup[actor] = "NONE" \/ teamId[actor] # t
  THEN UNCHANGED vars
  ELSE IF ~isLeader[actor] /\ actor # target
  THEN UNCHANGED vars
  ELSE IF eventGroup[target] = "NONE" \/ teamId[target] # t
  THEN UNCHANGED vars
  ELSE IF isLeader[target]
  THEN UNCHANGED vars
  ELSE /\ teamId' = [teamId EXCEPT ![target] = Null]
       /\ UNCHANGED <<eventGroup, isLeader, virtualReward, event, active, feedbackVars, teams,
                      ledgerVars, specialRewardVote, req>>

\* the rows of SpecialRewardVote that go with a deleted EventParticipant row
ParticipantDeleteRows(pid) ==
  DeleteMany(specialRewardVote, LAMBDA r : r.committeeId = pid)

\* the 403 answers of DELETE /:id/participants/:pid
DeleteForbidden(actor, pid) ==
  eventGroup[pid] = "ORGANIZER" /\ (~isLeader[actor] \/ pid = actor)

DeleteParticipant(actor, pid) ==
  IF eventGroup[actor] # "ORGANIZER" \/ eventGroup[pid] = "NONE"
  THEN UNCHANGED vars
  ELSE IF DeleteForbidden(actor, pid)
  THEN UNCHANGED vars
  ELSE /\ eventGroup' = [eventGroup EXCEPT ![pid] = "NONE"]
       /\ isLeader' = [isLeader EXCEPT ![pid] = FALSE]
       /\ teamId' = [teamId EXCEPT ![pid] = Null]
       /\ virtualReward' = [virtualReward EXCEPT ![pid] = 0]
       /\ specialRewardVote' = ParticipantDeleteRows(pid)
       /\ UNCHANGED <<event, active, feedbackVars, teams, ledgerVars, req>>

----------------------------------------------------------------------------
(* The seeded event: an organizer-leader, a guest, a committee member, three
   presenters in two teams, and an empty ledger *)

Budgets == {None} \cup {Some(n) : n \in 0..MaxBudget}

EventRows ==
  {[virtualRewardGuest |-> Some(MaxBudget), virtualRewardCommittee |-> Some(MaxBudget),
    vrTeamCapEnabled |-> en, vrTeamCapGuest |-> cap, vrTeamCapCommittee |-> None,
    maxTeams |-> None, maxTeamMembers |-> None] :
      en \in BOOLEAN, cap \in {Some(1)}}

InitStore ==
  /\ eventGroup = [u \in Users |->
        CASE u = "o1" -> "ORGANIZER" [] u = "g1" -> "GUEST" [] u = "g2" -> "COMMITTEE"
          [] OTHER -> "PRESENTER"]
  /\ isLeader = [u \in Users |-> u \in {"o1", "p1", "p3"}]
  /\ teamId = [u \in Users |->
        CASE u \in {"p1", "p2"} -> "tA" [] u = "p3" -> "tB" [] OTHER -> Null]
  /\ event \in EventRows
  /\ virtualReward = [u \in Users |->
        CASE u = "g1" -> OrElse(event.virtualRewardGuest, 0)
          [] u = "g2" -> OrElse(event.virtualRewardCommittee, 0)
          [] OTHER -> 0]
  /\ active \in BOOLEAN
  /\ teams = TeamIds
  /\ teamReward = EmptyBag
  /\ teamRewardCategory = EmptyBag
  /\ specialRewardVote = EmptyBag
  /\ comment = EmptyBag
  /\ eventRating = EmptyBag

NoRequests == <<>>

Init == InitStore /\ req = NoRequests

ProjectIds == TeamIds \cup {"tX"}   \* "tX": no team of the event

RoleBodies == {Body(eg, None, None, Absent) : eg \in {"GUEST", "COMMITTEE", "PRESENTER"}}
BudgetBodies == {Body(Absent, None, Some(n), Absent) : n \in 0..MaxBudget}

Next ==
  \/ \E t \in ProjectIds, payload \in Payloads : Give("g1", t, payload)
  \/ \E t \in ProjectIds, payload \in FlatPayloads : Give("g2", t, payload)
  \/ \E u \in {"g1", "g2"}, t \in ProjectIds : Reset(u, t)
  \/ \E body \in RoleBodies \cup BudgetBodies : UpdateParticipant("o1", "g1", body)
  \/ \E bg \in Budgets : UpdateEvent("o1", bg, None)

Spec == Init /\ [][Next]_vars

----------------------------------------------------------------------------
(* Requests in flight: one step per group of statements.  The transaction of
   a handler (prisma.$transaction, no isolation level given: READ COMMITTED)
   reads the committed tables and its own writes, and its writes reach the
   committed tables at commit, all together, or never. *)

EmptyView == View(EmptyBag, EmptyBag)

IdleReq ==
  [op |-> "idle", pc |-> "idle", user |-> Null, team |-> Null, payload |-> InvalidPayload,
   participant |-> None, del |-> EmptyView, ins |-> EmptyView,
   members |-> {}, answer |-> Response("none", None)]

Done(r, kind, totals) ==
  [r EXCEPT !.pc = "done", !.del = EmptyView, !.ins = EmptyView,
            !.answer = Response(kind, totals)]

\* the reward tables as the statements of the transaction of request q read them
TxView(q) ==
  View((teamReward (-) req[q].del.tr) (+) req[q].ins.tr,
       (teamRewardCategory (-) req[q].del.trc) (+) req[q].ins.trc)

\* the committed tables once the transaction of request q has committed
CommittedBy(q) == TxView(q)

\* a rollback that leaves the deletions of the transaction in place
RolledBackKeepingDeletes(q) ==
  View(teamReward (-) req[q].del.tr, teamRewardCategory (-) req[q].del.trc)

\* the committed tables once the transaction of request q has thrown
RolledBack(q) == Committed

\* request q has written rows of team t (or rows that reference it) and not committed
HoldsLock(q, t) ==
  /\ req[q].pc = "commit" /\ req[q].team = t
  /\ (req[q].del # EmptyView \/ req[q].ins # EmptyView)

\* zValidator, then "1. Check if user is a participant" and the active window
GiveStart(q, u, t, payload) ==
  /\ req[q].op = "idle"
  /\ LET r == [IdleReq EXCEPT !.op = "give", !.user = u, !.team = t, !.payload = payload,
                              !.participant = Some(Participant(u))]
     IN  req' = [req EXCEPT ![q] =
           IF payload.mode = "invalid" THEN Done(r, "InvalidInput", None)
           ELSE IF ~IsGiver(u) THEN Done(r, "Forbidden", None)
           ELSE IF ~active THEN Done(r, "EventNotActive", None)
           ELSE [r EXCEPT !.pc = "team"]]
  /\ UNCHANGED <<partVars, event, active, feedbackVars, teams, ledgerVars, specialRewardVote>>

\* "2. Check if project (Team) exists in this event"
GiveFindTeam(q) ==
  /\ req[q].op = "give" /\ req[q].pc = "team"
  /\ req' = [req EXCEPT ![q] =
        IF req[q].team \notin teams THEN Done(req[q], "NotFound", None)
        ELSE [req[q] EXCEPT !.pc = "check"]]
  /\ UNCHANGED <<partVars, event, active, feedbackVars, teams, ledgerVars, specialRewardVote>>

\* the transaction body up to the balance check; a throw rolls back
GiveTxCheck(q) ==
  /\ req[q].op = "give" /\ req[q].pc = "check"
  /\ LET r == req[q]
         kind == GiveCheck(TxView(q), r.participant[1], r.team, r.payload)
     IN  /\ req' = [req EXCEPT ![q] =
               IF kind = "ok" THEN [r EXCEPT !.pc = "apply"] ELSE Done(r, kind, None)]
         /\ teamReward' = IF kind = "ok" THEN teamReward ELSE RolledBack(q).tr
         /\ teamRewardCategory' =
               IF kind = "ok" THEN teamRewardCategory ELSE RolledBack(q).trc
  /\ UNCHANGED <<partVars, event, active, feedbackVars, teams, specialRewardVote>>

\* a TeamReward table that takes a second row of a giver for a team
NoRewardClash(tr, row) == {}

\* (eventId, teamId, giverId) is unique in TeamReward: the rows of tr that refuse
\* the insert of row
RewardClash(tr, row) ==
  {r \in RowsOf(tr) : r.giverId = row.giverId /\ r.teamId = row.teamId}

\* the writes of the transaction body and the totals of its answer; a create
\* whose key another open transaction has inserted waits for the end of that one
GiveTxApply(q) ==
  /\ req[q].op = "give" /\ req[q].pc = "apply"
  /\ LET r == req[q]
         v == TxView(q)
         w == GiveApply(v, r.user, r.team, r.payload)
         del == View(v.tr (-) w.tr, v.trc (-) w.trc)
         ins == View(w.tr (-) v.tr, w.trc (-) v.trc)
         created == {row \in DOMAIN ins.tr : RewardClash(del.tr, row) = {}}
         waits == \E o \in DOMAIN req \ {q}, row \in created :
                    req[o].pc = "commit" /\ RewardClash(req[o].ins.tr, row) # {}
     IN  \* a row another open transaction has deleted or updated is locked
         /\ \A o \in DOMAIN req \ {q} :
               req[o].pc = "commit" =>
                 /\ DOMAIN del.tr \cap DOMAIN req[o].del.tr = {}
                 /\ DOMAIN del.trc \cap DOMAIN req[o].del.trc = {}
         /\ req' = [req EXCEPT ![q] =
               IF waits
               THEN [r EXCEPT !.pc = "blocked", !.del = del, !.ins = ins,
                              !.answer = Response("ok", <<r.participant[1].virtualReward,
                                                          TotalUsed(w, r.user)>>)]
               ELSE IF ins # EmptyView /\ ~TeamFk(teams, r.team)
               THEN Done(r, "Internal", None)
               ELSE [r EXCEPT !.pc = "commit", !.del = del, !.ins = ins,
                              !.answer = Response("ok", <<r.participant[1].virtualReward,
                                                          TotalUsed(w, r.user)>>)]]
  /\ UNCHANGED <<partVars, event, active, feedbackVars, teams, ledgerVars, specialRewardVote>>

\* the waiting create once the other transaction has ended: refused when that
\* one has committed its row, carried out when it has rolled back
GiveTxCreate(q) ==
  /\ req[q].op = "give" /\ req[q].pc = "blocked"
  /\ \A o \in DOMAIN req \ {q}, row \in DOMAIN req[q].ins.tr :
        req[o].pc = "commit" => RewardClash(req[o].ins.tr, row) = {}
  /\ req' = [req EXCEPT ![q] =
        IF \E row \in DOMAIN req[q].ins.tr : RewardClash(teamReward, row) # {}
        THEN Done(req[q], "Internal", None)
        ELSE IF ~TeamFk(teams, req[q].team) THEN Done(req[q], "Internal", None)
        ELSE [req[q] EXCEPT !.pc = "commit"]]
  /\ UNCHANGED <<partVars, event, active, feedbackVars, teams, ledgerVars, specialRewardVote>>

GiveCommit(q) ==
  /\ req[q].op = "give" /\ req[q].pc = "commit"
  /\ teamReward' = CommittedBy(q).tr
  /\ teamRewardCategory' = CommittedBy(q).trc
  /\ req' = [req EXCEPT ![q] = Done(req[q], "ok", req[q].answer.totals)]
  /\ UNCHANGED <<partVars, event, active, feedbackVars, teams, specialRewardVote>>

\* a storage error inside the transaction: the catch answers 500
GiveTxFail(q) ==
  /\ req[q].op = "give" /\ req[q].pc \in {"check", "apply", "blocked", "commit"}
  /\ teamReward' = RolledBack(q).tr
  /\ teamRewardCategory' = RolledBack(q).trc
  /\ req' = [req EXCEPT ![q] = Done(req[q], "Internal", None)]
  /\ UNCHANGED <<partVars, event, active, feedbackVars, teams, specialRewardVote>>

\* DELETE /:id/teams/:teamId : the permission check and the updateMany
DeleteTeamUnlink(q, actor, t) ==
  /\ req[q].op = "idle"
  /\ LET r == [IdleReq EXCEPT !.op = "deleteTeam", !.user = actor, !.team = t]
     IN  IF ~MayDeleteTeam(actor, t)
         THEN /\ req' = [req EXCEPT ![q] = Done(r, "Forbidden", None)]
              /\ UNCHANGED <<teamId, isLeader>>
         ELSE /\ req' = [req EXCEPT ![q] =
                   [r EXCEPT !.pc = "delete", !.members = {m \in Users : teamId[m] = t}]]
              /\ teamId' = UnlinkedTeamId(t)
              /\ isLeader' = UnlinkedLeader(t)
  /\ UNCHANGED <<eventGroup, virtualReward, event, active, feedbackVars, teams, ledgerVars,
                 specialRewardVote>>

\* DELETE /:id/teams/:teamId : prisma.team.delete
DeleteTeamDelete(q) ==
  /\ req[q].op = "deleteTeam" /\ req[q].pc = "delete"
  /\ \A o \in DOMAIN req : ~HoldsLock(o, req[q].team)
  /\ LET t == req[q].team
     IN  /\ teams' = teams \ {t}
         /\ teamReward' = TeamDeleteRows(teamReward, t)
         /\ teamRewardCategory' = TeamDeleteRows(teamRewardCategory, t)
         /\ specialRewardVote' = TeamDeleteRows(specialRewardVote, t)
         /\ comment' = TeamDeleteRows(comment, t)
         /\ req' = [req EXCEPT ![q] =
               Done(req[q], IF t \in teams THEN "ok" ELSE "Internal", None)]
  /\ UNCHANGED <<partVars, event, active, eventRating>>

GiveRids == {"q1", "q2"}

\* the ledgers the two requests start from: empty, or one earlier give of g1
TxSeeds ==
  {EmptyView,
   View(SetToBag({[giverId |-> "g1", teamId |-> "tA", reward |-> 1]}), EmptyBag),
   View(EmptyBag,
        SetToBag({[giverId |-> "g1", teamId |-> "tB", categoryId |-> "c1", amount |-> 1]}))}

\* the store the requests start from: the seeded event with one of the ledgers
TxStore ==
  /\ eventGroup = [u \in Users |->
        CASE u = "o1" -> "ORGANIZER" [] u = "g1" -> "GUEST" [] u = "g2" -> "COMMITTEE"
          [] OTHER -> "PRESENTER"]
  /\ isLeader = [u \in Users |-> u \in {"o1", "p1", "p3"}]
  /\ teamId = [u \in Users |->
        CASE u \in {"p1", "p2"} -> "tA" [] u = "p3" -> "tB" [] OTHER -> Null]
  /\ event \in {e \in EventRows : ~e.vrTeamCapEnabled}
  /\ virtualReward = [u \in Users |->
        CASE u = "g1" -> OrElse(event.virtualRewardGuest, 0)
          [] u = "g2" -> OrElse(event.virtualRewardCommittee, 0)
          [] OTHER -> 0]
  /\ active = TRUE
  /\ teams = TeamIds
  /\ \E seed \in TxSeeds : teamReward = seed.tr /\ teamRewardCategory = seed.trc
  /\ specialRewardVote = EmptyBag
  /\ comment = EmptyBag
  /\ eventRating = EmptyBag

InitTx == TxStore /\ req = [q \in GiveRids \cup {"d1"} |-> IdleReq]

TxPayloads == FlatPayloads \cup {[mode |-> "categories", amount |-> 0, categories |-> <<<<"c1", 1>>>>]}

\* the two gives and the deletion of tA, statement by statement; the leader of
\* tB leaves the presenter role (the whole handler in one step)
NextTx ==
  \/ \E q \in GiveRids, t \in TeamIds, payload \in TxPayloads :
       GiveStart(q, "g1", t, payload)
  \/ \E q \in GiveRids :
       \/ GiveFindTeam(q) \/ GiveTxCheck(q) \/ GiveTxApply(q) \/ GiveTxCreate(q)
       \/ GiveCommit(q) \/ GiveTxFail(q)
  \/ DeleteTeamUnlink("d1", "o1", "tA")
  \/ DeleteTeamDelete("d1")
  \/ /\ \A o \in DOMAIN req : ~HoldsLock(o, "tB")
     /\ UpdateParticipant("o1", "p3", Body("GUEST", None, None, Absent))

SpecTx == InitTx /\ [][NextTx]_vars

----------------------------------------------------------------------------
(* PUT /give-special and POST /reset-special *)

IsCommittee(u) == eventGroup[u] = "COMMITTEE"

Elems(seq) == {seq[i] : i \in 1..Len(seq)}

\* prisma.specialReward.findMany({ where: { id: { in: rewardIds } } }).length
\* differs from rewardIds.length
RewardsInvalid(rewardIds) ==
  Cardinality(Elems(rewardIds) \cap Rewards) # Len(rewardIds)

\* currentRewardIds: the rewards of this committee member's votes for this team
CurrentRewardIds(votes, u, t) ==
  {r.rewardId : r \in RowsOf(Where(votes, LAMBDA r : r.committeeId = u /\ r.teamId = t))}

ToRemove(votes, u, t, rewardIds) == CurrentRewardIds(votes, u, t) \ Elems(rewardIds)

\* a replacement that adds nothing
ToAddNothing(votes, u, t, rewardIds) == {}

ToAdd(votes, u, t, rewardIds) == Elems(rewardIds) \ CurrentRewardIds(votes, u, t)

\* a pre-check that looks at this team only
ConflictsOnThisTeam(votes, u, t, rewardIds) ==
  RowsOf(Where(votes, LAMBDA r : /\ r.committeeId = u
                                 /\ r.rewardId \in ToAdd(votes, u, t, rewardIds)
                                 /\ r.teamId = t))

\* "4. Check if any toAdd reward is already given to ANOTHER team by this committee"
Conflicts(votes, u, t, rewardIds) ==
  RowsOf(Where(votes, LAMBDA r : /\ r.committeeId = u
                                 /\ r.rewardId \in ToAdd(votes, u, t, rewardIds)
                                 /\ r.teamId # t))

VoteRow(u, t, rid) == [committeeId |-> u, teamId |-> t, rewardId |-> rid]

\* a store without the constraint
NoUniqueClash(votes, row) == {}

\* the unique constraint (rewardId, committeeId) the handler's comment relies on:
\* the rows of votes that refuse the insert of row
UniqueClash(votes, row) ==
  {r \in RowsOf(votes) : r.rewardId = row.rewardId /\ r.committeeId = row.committeeId}

\* the checks before the transaction
SetVotesStart(q, u, t, rewardIds) ==
  /\ req[q].pc \in {"idle", "done"}
  /\ LET r == [IdleReq EXCEPT !.op = "setVotes", !.user = u, !.team = t,
                              !.payload = rewardIds, !.del = EmptyBag, !.ins = EmptyBag]
         done(kind) == [r EXCEPT !.pc = "done", !.answer = Response(kind, None)]
     IN  req' = [req EXCEPT ![q] =
           IF ~IsCommittee(u) THEN done("Forbidden")
           ELSE IF ~active THEN done("EventNotActive")
           ELSE IF t \notin teams THEN done("NotFound")
           ELSE IF RewardsInvalid(rewardIds) THEN done("InvalidInput")
           ELSE [r EXCEPT !.pc = "check"]]
  /\ UNCHANGED <<partVars, event, active, feedbackVars, teams, ledgerVars, specialRewardVote>>

VotesDone(r, kind) ==
  [r EXCEPT !.pc = "done", !.del = EmptyBag, !.ins = EmptyBag, !.members = {},
            !.answer = Response(kind, None)]

\* currentVotes, toRemove, toAdd and the conflict pre-check; currentRewardIds
\* (in members), toRemove and toAdd are kept for the writes
SetVotesTxCheck(q) ==
  /\ req[q].op = "setVotes" /\ req[q].pc = "check"
  /\ LET r == req[q]
         conflicts == Conflicts(specialRewardVote, r.user, r.team, r.payload)
     IN  req' = [req EXCEPT ![q] =
           IF conflicts # {} THEN VotesDone(r, "RewardAlreadyAssigned")
           ELSE [r EXCEPT !.pc = "apply",
                   !.members = CurrentRewardIds(specialRewardVote, r.user, r.team),
                   !.del = SetToBag({VoteRow(r.user, r.team, rid) :
                              rid \in ToRemove(specialRewardVote, r.user, r.team, r.payload)}),
                   !.ins = SetToBag({VoteRow(r.user, r.team, rid) :
                              rid \in ToAdd(specialRewardVote, r.user, r.team, r.payload)})]]
  /\ UNCHANGED <<partVars, event, active, feedbackVars, teams, ledgerVars, specialRewardVote>>

\* the votes table as the statements of the open transaction of request q read it
VotesTxView(q) == (specialRewardVote (-) req[q].del) (+) req[q].ins

\* request q is an open transaction that has written
VotesWritten(q) == req[q].op = "setVotes" /\ req[q].pc = "commit"

\* "5. Remove" and "6. Add": deleteMany of the toRemove rows still there, create of
\* each toAdd row; a create the unique constraint refuses throws
SetVotesTxApply(q) ==
  /\ req[q].op = "setVotes" /\ req[q].pc = "apply"
  /\ LET r == req[q]
         del == Where(specialRewardVote, LAMBDA x : x \in DOMAIN r.del)
         left == specialRewardVote (-) del
         clash == \E row \in DOMAIN r.ins : UniqueClash(left, row) # {}
     IN  \* rows written by another open transaction are locked: wait for its end
         /\ \A o \in DOMAIN req \ {q} :
               VotesWritten(o) =>
                 /\ DOMAIN del \cap DOMAIN req[o].del = {}
                 /\ \A row \in DOMAIN r.ins :
                       UniqueClash(req[o].ins (+) req[o].del, row) = {}
         /\ req' = [req EXCEPT ![q] =
               IF clash THEN VotesDone(r, "ConstraintFailed")
               ELSE [r EXCEPT !.pc = "commit", !.del = del]]
  /\ UNCHANGED <<partVars, event, active, feedbackVars, teams, ledgerVars, specialRewardVote>>

SetVotesCommit(q) ==
  /\ req[q].op = "setVotes" /\ req[q].pc = "commit"
  /\ specialRewardVote' = VotesTxView(q)
  /\ req' = [req EXCEPT ![q] = VotesDone(req[q], "ok")]
  /\ UNCHANGED <<partVars, event, active, feedbackVars, teams, ledgerVars>>

\* a storage error inside the transaction
SetVotesTxFail(q) ==
  /\ req[q].op = "setVotes" /\ req[q].pc \in {"check", "apply", "commit"}
  /\ req' = [req EXCEPT ![q] = VotesDone(req[q], "Internal")]
  /\ UNCHANGED <<partVars, event, active, feedbackVars, teams, ledgerVars, specialRewardVote>>

\* POST /reset-special : the answer
ResetVotesKind(u) ==
  IF ~IsCommittee(u) THEN "Forbidden"
  ELSE IF ~active THEN "EventNotActive"
  ELSE "ok"

\* a deleteMany without the teamId of its where clause
ResetVotesAllTeams(votes, u, t) ==
  IF ResetVotesKind(u) = "ok"
  THEN DeleteMany(votes, LAMBDA r : r.committeeId = u)
  ELSE votes

\* prisma.specialRewardVote.deleteMany({ where: { committeeId, teamId } }) on the
\* votes table, when the call gets that far
ResetVotesView(votes, u, t) ==
  IF ResetVotesKind(u) = "ok"
  THEN DeleteMany(votes, LAMBDA r : r.committeeId = u /\ r.teamId = t)
  ELSE votes

\* POST /reset-special : one deleteMany, no transaction
ResetVotes(u, t) ==
  /\ \A o \in DOMAIN req :
        VotesWritten(o) => \A x \in DOMAIN req[o].del : ~(x.committeeId = u /\ x.teamId = t)
  /\ specialRewardVote' = ResetVotesView(specialRewardVote, u, t)
  /\ UNCHANGED <<partVars, event, active, feedbackVars, teams, ledgerVars, req>>

VoteRids == {"v1", "v2"}

RewardIdArrays ==
  {<<>>, <<"r1">>, <<"r2">>, <<"r1", "r2">>, <<"r1", "r1">>, <<"rX">>}

InitVotes ==
  /\ eventGroup = [u \in Users |->
        CASE u = "o1" -> "ORGANIZER" [] u \in {"g1", "g2"} -> "COMMITTEE"
          [] OTHER -> "PRESENTER"]
  /\ isLeader = [u \in Users |-> u \in {"o1", "p1", "p3"}]
  /\ teamId = [u \in Users |->
        CASE u \in {"p1", "p2"} -> "tA" [] u = "p3" -> "tB" [] OTHER -> Null]
  /\ event \in {e \in EventRows : ~e.vrTeamCapEnabled}
  /\ virtualReward = [u \in Users |->
        CASE u \in {"g1", "g2"} -> OrElse(event.virtualRewardCommittee, 0)
          [] OTHER -> 0]
  /\ active = TRUE
  /\ teams = TeamIds
  /\ teamReward = EmptyBag
  /\ teamRewardCategory = EmptyBag
  /\ specialRewardVote = EmptyBag
  /\ comment = EmptyBag
  /\ eventRating = EmptyBag
  /\ req = [q \in VoteRids |-> IdleReq]

NextVotes ==
  \/ \E q \in VoteRids, t \in TeamIds, rewardIds \in RewardIdArrays :
       SetVotesStart(q, "g2", t, rewardIds)
  \/ \E q \in VoteRids : SetVotesStart(q, "g1", "tA", <<"r1">>)
  \/ \E q \in VoteRids :
       \/ SetVotesTxCheck(q) \/ SetVotesTxApply(q) \/ SetVotesCommit(q)
       \/ SetVotesTxFail(q)
  \/ \E u \in {"g1", "g2"}, t \in TeamIds : ResetVotes(u, t)

SpecVotes == InitVotes /\ [][NextVotes]_vars

----------------------------------------------------------------------------
(* PUT /:id/participants/:pid and DELETE /:id/teams/:teamId, statement by
   statement.  Neither handler opens a transaction: every statement commits
   on its own, and a statement that throws ends the handler with the earlier
   statements in place. *)

\* the findFirst of the organizer, the event and the participant; the body
SetRoleStart(q, actor, pid, body) ==
  /\ req[q].op = "idle"
  /\ LET r == [IdleReq EXCEPT
                 !.op = "setRole", !.user = actor, !.payload = body,
                 !.team = teamId[pid],
                 !.participant = Some([existing |-> Existing(pid),
                                       leads |-> isLeader[actor],
                                       virtualReward |-> DataVirtualReward(body)]),
                 !.members = {m \in Users : teamId[pid] # Null /\ teamId[m] = teamId[pid]}]
     IN  req' = [req EXCEPT ![q] =
           IF eventGroup[actor] # "ORGANIZER" THEN Done(r, "Forbidden", None)
           ELSE IF eventGroup[pid] = "NONE" THEN Done(r, "NotFound", None)
           ELSE [r EXCEPT !.pc = "purge"]]
  /\ UNCHANGED <<partVars, event, active, feedbackVars, teams, ledgerVars, specialRewardVote>>

\* the two deleteMany of a role change, then the 403 answers
SetRolePurge(q) ==
  /\ req[q].op = "setRole" /\ req[q].pc = "purge"
  /\ LET r == req[q]
         existing == r.participant[1].existing
     IN  /\ teamReward' = PurgedTeamReward(existing, r.payload)
         /\ specialRewardVote' = PurgedVotes(existing, r.payload)
         /\ req' = [req EXCEPT ![q] =
               IF UpdateForbidden(r.user, r.participant[1].leads, existing, r.payload)
                 THEN Done(r, "Forbidden", None)
               ELSE IF LeaderLeaves(existing, r.payload) THEN [r EXCEPT !.pc = "unlink"]
               ELSE [r EXCEPT !.pc = "update"]]
  /\ UNCHANGED <<partVars, event, active, feedbackVars, teams, teamRewardCategory>>

\* "Leader leaving: Delete team and remove all members from it": the updateMany
SetRoleUnlink(q) ==
  /\ req[q].op = "setRole" /\ req[q].pc = "unlink"
  /\ teamId' = UnlinkedTeamId(req[q].team)
  /\ isLeader' = UnlinkedLeader(req[q].team)
  /\ req' = [req EXCEPT ![q].pc = "delete"]
  /\ UNCHANGED <<eventGroup, virtualReward, event, active, feedbackVars, teams, ledgerVars,
                 specialRewardVote>>

\* prisma.team.delete({ where: { id: existing.teamId } })
SetRoleDeleteTeam(q) ==
  /\ req[q].op = "setRole" /\ req[q].pc = "delete"
  /\ \A o \in DOMAIN req : ~HoldsLock(o, req[q].team)
  /\ LET t == req[q].team
     IN  /\ teams' = teams \ {t}
         /\ teamReward' = TeamDeleteRows(teamReward, t)
         /\ teamRewardCategory' = TeamDeleteRows(teamRewardCategory, t)
         /\ specialRewardVote' = TeamDeleteRows(specialRewardVote, t)
         /\ comment' = TeamDeleteRows(comment, t)
         /\ req' = [req EXCEPT ![q] =
               IF t \in teams THEN [req[q] EXCEPT !.pc = "update"]
               ELSE Done(req[q], "Internal", None)]
  /\ UNCHANGED <<partVars, event, active, eventRating>>

\* prisma.eventParticipant.update({ where: { id: pid }, data })
SetRoleUpdate(q) ==
  /\ req[q].op = "setRole" /\ req[q].pc = "update"
  /\ LET r == req[q]
         existing == r.participant[1].existing
         pid == existing.id
         body == r.payload
         setsTeam == LeavesPresenter(existing, body) \/ body.teamId # Absent
         setsLead == LeaderLeaves(existing, body) \/ body.isLeader # None
     IN  IF setsTeam /\ ~TeamFk(teams, DataTeam(existing, body))
         THEN /\ req' = [req EXCEPT ![q] = Done(r, "Internal", None)]
              /\ UNCHANGED partVars
         ELSE /\ eventGroup' = [eventGroup EXCEPT ![pid] = DataGroup(existing, body)]
              /\ virtualReward' = [virtualReward EXCEPT ![pid] =
                    OrElse(r.participant[1].virtualReward, virtualReward[pid])]
              /\ teamId' = IF setsTeam
                           THEN [teamId EXCEPT ![pid] = DataTeam(existing, body)]
                           ELSE teamId
              /\ isLeader' = IF setsLead
                             THEN [isLeader EXCEPT ![pid] = DataLeader(existing, body)]
                             ELSE isLeader
              /\ req' = [req EXCEPT ![q] = Done(r, "ok", None)]
  /\ UNCHANGED <<event, active, feedbackVars, teams, ledgerVars, specialRewardVote>>

\* a statement throws (a storage error): the handler answers 500
StatementFails(q) ==
  /\ \/ req[q].op = "setRole" /\ req[q].pc \in {"purge", "unlink", "delete", "update"}
     \/ req[q].op = "deleteTeam" /\ req[q].pc = "delete"
  /\ req' = [req EXCEPT ![q] = Done(req[q], "Internal", None)]
  /\ UNCHANGED <<partVars, event, active, feedbackVars, teams, ledgerVars, specialRewardVote>>

CascadeRids == {"u1", "d1"}

InitCascade == TxStore /\ req = [q \in CascadeRids |-> IdleReq]

\* the organizer changes the role of a presenter of tA; tB is dissolved by the
\* organizer, by its leader, or asked for by somebody else
NextCascade ==
  \/ \E pid \in {"p1", "p2"}, body \in RoleBodies : SetRoleStart("u1", "o1", pid, body)
  \/ SetRolePurge("u1") \/ SetRoleUnlink("u1") \/ SetRoleDeleteTeam("u1")
  \/ SetRoleUpdate("u1")
  \/ \E actor \in {"o1", "p3", "p1"} : DeleteTeamUnlink("d1", actor, "tB")
  \/ DeleteTeamDelete("d1")
  \/ \E q \in CascadeRids : StatementFails(q)

SpecCascade == InitCascade /\ [][NextCascade]_vars

----------------------------------------------------------------------------
(* The team operations and the organizer's updates of the presenters, each
   handler in one step *)

Presenters == {"p1", "p2", "p3"}

LeaderBodies == {Body(Absent, Some(b), None, Absent) : b \in BOOLEAN}
TeamBodies == {Body(Absent, None, None, t) : t \in TeamIds \cup {Null}}

NextTeam ==
  \/ \E actor \in Presenters, t \in TeamIds : CreateTeam(actor, t)
  \/ \E actor, target \in Presenters, t \in TeamIds : AddMember(actor, t, target)
  \/ \E actor, target \in Presenters, t \in TeamIds : RemoveMember(actor, t, target)
  \/ \E pid \in Presenters : DeleteParticipant("o1", pid)
  \/ \E actor \in Presenters \cup {"o1"}, t \in TeamIds : DeleteTeam(actor, t)
  \/ \E pid \in Presenters, body \in LeaderBodies \cup TeamBodies \cup RoleBodies :
       UpdateParticipant("o1", pid, body)

InitTeam == InitStore /\ active /\ ~event.vrTeamCapEnabled /\ req = NoRequests

SpecTeam == InitTeam /\ [][NextTeam]_vars

----------------------------------------------------------------------------
(* POST /:id/invite, statement by statement: the existence check and the
   create are separate statements outside any transaction *)

\* the role the token or the signed link grants
Grants == {"ORGANIZER", "PRESENTER", "COMMITTEE", "GUEST", "invalid"}

\* the budget of the new participant
JoinVirtualReward(targetRole) ==
  IF targetRole = "COMMITTEE" THEN OrElse(event.virtualRewardCommittee, 0)
  ELSE IF targetRole = "GUEST" THEN OrElse(event.virtualRewardGuest, 0)
  ELSE 0

\* inPeriod: the clock is inside the joining period of the granted role
JoinStart(q, u, grant, inPeriod) ==
  /\ req[q].op = "idle"
  /\ LET r == [IdleReq EXCEPT !.op = "join", !.user = u,
                 !.participant = Some([eventGroup |-> grant,
                                       virtualReward |-> JoinVirtualReward(grant)])]
     IN  req' = [req EXCEPT ![q] =
           IF eventGroup[u] # "NONE" THEN Done(r, "AlreadyJoined", None)
           ELSE IF grant \notin Groups THEN Done(r, "InvalidRole", None)
           ELSE IF grant \in {"PRESENTER", "GUEST"} /\ ~inPeriod
             THEN Done(r, "NotInPeriod", None)
           ELSE [r EXCEPT !.pc = "create"]]
  /\ UNCHANGED <<partVars, event, active, feedbackVars, teams, ledgerVars, specialRewardVote>>

\* (eventId, userId) is unique in EventParticipant
ParticipantClash(u) == eventGroup[u] # "NONE"

\* prisma.eventParticipant.create; a rejected create is not caught by the handler
JoinCreate(q) ==
  /\ req[q].op = "join" /\ req[q].pc = "create"
  /\ LET u == req[q].user
         data == req[q].participant[1]
     IN  IF ParticipantClash(u)
         THEN /\ req' = [req EXCEPT ![q] = Done(req[q], "Internal", None)]
              /\ UNCHANGED partVars
         ELSE /\ eventGroup' = [eventGroup EXCEPT ![u] = data.eventGroup]
              /\ isLeader' = [isLeader EXCEPT ![u] = FALSE]
              /\ teamId' = [teamId EXCEPT ![u] = Null]
              /\ virtualReward' = [virtualReward EXCEPT ![u] = data.virtualReward]
              /\ req' = [req EXCEPT ![q] = Done(req[q], "ok", None)]
  /\ UNCHANGED <<event, active, feedbackVars, teams, ledgerVars, specialRewardVote>>

JoinRids == {"j1", "j2"}

\* the seeded event; the organizer removes participants, who may join again
InitJoin ==
  /\ InitStore /\ active /\ ~event.vrTeamCapEnabled
  /\ req = [q \in JoinRids |-> IdleReq]

NextJoin ==
  \/ \E q \in JoinRids, u \in {"g1", "p3"}, grant \in Grants, inPeriod \in BOOLEAN :
       JoinStart(q, u, grant, inPeriod)
  \/ \E q \in JoinRids : JoinCreate(q)
  \/ \E pid \in {"g1", "p3"} : DeleteParticipant("o1", pid)

SpecJoin == InitJoin /\ [][NextJoin]_vars

----------------------------------------------------------------------------
(* POST /give-comment and PUT /rate, statement by statement: the lookup and
   the update or create are separate statements outside any transaction *)

MinRating == 1
MaxRating == 5

\* zValidator, the participant, the active window and the team
CommentStart(q, u, t, content) ==
  /\ req[q].op = "idle"
  /\ LET r == [IdleReq EXCEPT !.op = "comment", !.user = u, !.team = t,
                              !.payload = content]
     IN  req' = [req EXCEPT ![q] =
           IF content = "" THEN Done(r, "InvalidInput", None)
           ELSE IF ~IsGiver(u) THEN Done(r, "Forbidden", None)
           ELSE IF ~active THEN Done(r, "EventNotActive", None)
           ELSE IF t \notin teams THEN Done(r, "NotFound", None)
           ELSE [r EXCEPT !.pc = "find"]]
  /\ UNCHANGED <<partVars, event, active, feedbackVars, teams, ledgerVars,
                 specialRewardVote>>

\* "Check if comment already exists for this user and team": findFirst answers
\* one of the matching rows, or null
CommentFind(q) ==
  /\ req[q].op = "comment" /\ req[q].pc = "find"
  /\ LET found == {x \in RowsOf(comment) :
                     x.teamId = req[q].team /\ x.userId = req[q].user}
     IN  \E existing \in IF found = {} THEN {None} ELSE {Some(x) : x \in found} :
           req' = [req EXCEPT ![q] = [req[q] EXCEPT !.pc = "write",
                                                    !.participant = existing]]
  /\ UNCHANGED <<partVars, event, active, feedbackVars, teams, ledgerVars,
                 specialRewardVote>>

\* prisma.comment.update of the row found, else prisma.comment.create
CommentWrite(q) ==
  /\ req[q].op = "comment" /\ req[q].pc = "write"
  /\ LET r == req[q]
         row == [userId |-> r.user, teamId |-> r.team, content |-> r.payload]
     IN  IF r.participant = None
         THEN /\ comment' = Create(comment, row)
              /\ req' = [req EXCEPT ![q] = Done(r, "ok", None)]
         ELSE IF BagIn(r.participant[1], comment)
         THEN /\ comment' = Create(DeleteOne(comment, r.participant[1]), row)
              /\ req' = [req EXCEPT ![q] = Done(r, "ok", None)]
         ELSE /\ req' = [req EXCEPT ![q] = Done(r, "Internal", None)]
              /\ UNCHANGED comment
  /\ UNCHANGED <<partVars, event, active, eventRating, teams, ledgerVars,
                 specialRewardVote>>

\* zValidator, "Check participation", the active window, no organizer
RateStart(q, u, rating) ==
  /\ req[q].op = "idle"
  /\ LET r == [IdleReq EXCEPT !.op = "rate", !.user = u, !.payload = rating]
     IN  req' = [req EXCEPT ![q] =
           IF rating < MinRating \/ rating > MaxRating THEN Done(r, "InvalidInput", None)
           ELSE IF eventGroup[u] = "NONE" THEN Done(r, "Forbidden", None)
           ELSE IF ~active THEN Done(r, "EventNotActive", None)
           ELSE IF eventGroup[u] = "ORGANIZER" THEN Done(r, "Forbidden", None)
           ELSE [r EXCEPT !.pc = "find"]]
  /\ UNCHANGED <<partVars, event, active, feedbackVars, teams, ledgerVars,
                 specialRewardVote>>

\* prisma.eventRating.findUnique({ where: { eventId_userId } })
RateFind(q) ==
  /\ req[q].op = "rate" /\ req[q].pc = "find"
  /\ LET found == {x \in RowsOf(eventRating) : x.userId = req[q].user}
     IN  \E existing \in IF found = {} THEN {None} ELSE {Some(x) : x \in found} :
           req' = [req EXCEPT ![q] = [req[q] EXCEPT !.pc = "write",
                                                    !.participant = existing]]
  /\ UNCHANGED <<partVars, event, active, feedbackVars, teams, ledgerVars,
                 specialRewardVote>>

\* the unique key eventId_userId of EventRating: the rows that refuse the insert
RatingClash(ratings, row) == {x \in RowsOf(ratings) : x.userId = row.userId}

\* prisma.eventRating.update of the row found, else prisma.eventRating.create; the
\* catch answers 500
RateWrite(q) ==
  /\ req[q].op = "rate" /\ req[q].pc = "write"
  /\ LET r == req[q]
         row == [userId |-> r.user, rating |-> r.payload]
     IN  IF r.participant = None /\ RatingClash(eventRating, row) = {}
         THEN /\ eventRating' = Create(eventRating, row)
              /\ req' = [req EXCEPT ![q] = Done(r, "ok", None)]
         ELSE IF r.participant # None /\ BagIn(r.participant[1], eventRating)
         THEN /\ eventRating' = Create(DeleteOne(eventRating, r.participant[1]), row)
              /\ req' = [req EXCEPT ![q] = Done(r, "ok", None)]
         ELSE /\ req' = [req EXCEPT ![q] = Done(r, "Internal", None)]
              /\ UNCHANGED eventRating
  /\ UNCHANGED <<partVars, event, active, comment, teams, ledgerVars,
                 specialRewardVote>>

FeedbackRids == {"f1", "f2"}

InitFeedback ==
  /\ InitStore /\ ~event.vrTeamCapEnabled
  /\ req = [q \in FeedbackRids |-> IdleReq]

Contents == {"", "x", "y"}

NextFeedback ==
  \/ \E q \in FeedbackRids, u \in {"g1", "p1"}, t \in {"tA", "tX"}, content \in Contents :
       CommentStart(q, u, t, content)
  \/ \E q \in FeedbackRids : CommentFind(q) \/ CommentWrite(q)
  \/ \E q \in FeedbackRids, u \in {"g1", "o1"},
        rating \in {MinRating - 1, MinRating, MaxRating, MaxRating + 1} :
       RateStart(q, u, rating)
  \/ \E q \in FeedbackRids : RateFind(q) \/ RateWrite(q)

SpecFeedback == InitFeedback /\ [][NextFeedback]_vars

----------------------------------------------------------------------------
(* The calls that check the active window, inside and outside the window *)

WindowRids == {"w1", "w2"}

InitWindow == InitStore /\ ~event.vrTeamCapEnabled /\ req = [q \in WindowRids |-> IdleReq]

NextWindow ==
  \/ \E u \in {"g1", "p1"}, payload \in FlatPayloads \cup {InvalidPayload} :
       Give(u, "tA", payload)
  \/ \E u \in {"g1", "p1"} : Reset(u, "tA")
  \/ \E q \in WindowRids, u \in {"g2", "g1"}, rewardIds \in {<<>>, <<"r1">>} :
       SetVotesStart(q, u, "tA", rewardIds)
  \/ \E q \in WindowRids :
       \/ SetVotesTxCheck(q) \/ SetVotesTxApply(q) \/ SetVotesCommit(q)
       \/ SetVotesTxFail(q)
  \/ \E u \in {"g2", "g1"} : ResetVotes(u, "tA")
  \/ \E q \in WindowRids, u \in {"g1", "p1"}, content \in {"", "x"} :
       CommentStart(q, u, "tA", content)
  \/ \E q \in WindowRids : CommentFind(q) \/ CommentWrite(q)
  \/ \E q \in WindowRids, u \in {"g1", "o1"}, rating \in {MinRating - 1, MinRating} :
       RateStart(q, u, rating)
  \/ \E q \in WindowRids : RateFind(q) \/ RateWrite(q)

SpecWindow == InitWindow /\ [][NextWindow]_vars

----------------------------------------------------------------------------
(* PUT /:id/participants/:pid by leading and other organizers, on organizers,
   on oneself and on givers that hold reward rows *)

NextRoles ==
  \/ \E t \in TeamIds :
       Give("g2", t, [mode |-> "flat", amount |-> 1, categories |-> <<>>])
  \/ \E actor \in {"o1", "g1", "p1"}, pid \in {"o1", "g1", "g2"},
        body \in {Body(eg, None, None, Absent) : eg \in {"ORGANIZER", "GUEST", "COMMITTEE"}}
                   \cup LeaderBodies
                   \cup {Body(Absent, None, Some(0), Absent), Body("GUEST", Some(TRUE), None, Absent),
                         Body("ORGANIZER", Some(TRUE), None, Absent)} :
       UpdateParticipant(actor, pid, body)
  \/ \E actor \in {"o1", "g1"}, pid \in {"o1", "g1", "g2"} : DeleteParticipant(actor, pid)

SpecRoles == InitTeam /\ [][NextRoles]_vars

----------------------------------------------------------------------------
(* POST /:id/teams and POST /:id/teams/:teamId/members, statement by statement:
   the counts, the create and the updates are separate statements outside any
   transaction *)

\* the lookups and the count of POST /:id/teams
TeamCreateStart(q, actor) ==
  /\ req[q].op = "idle"
  /\ LET r == [IdleReq EXCEPT !.op = "createTeam", !.user = actor]
     IN  req' = [req EXCEPT ![q] =
           IF eventGroup[actor] = "NONE" THEN Done(r, "Forbidden", None)
           ELSE IF teamId[actor] # Null THEN Done(r, "AlreadyOnTeam", None)
           ELSE IF event.maxTeams # None /\ event.maxTeams[1] # 0
                   /\ Cardinality(teams) >= event.maxTeams[1]
             THEN Done(r, "CapacityReached", None)
           ELSE [r EXCEPT !.pc = "create"]]
  /\ UNCHANGED <<partVars, event, active, feedbackVars, teams, ledgerVars, specialRewardVote>>

\* prisma.team.create; t: the id of the new Team row
TeamCreateWrite(q, t) ==
  /\ req[q].op = "createTeam" /\ req[q].pc = "create"
  /\ t \notin teams
  /\ teams' = teams \cup {t}
  /\ req' = [req EXCEPT ![q] = [req[q] EXCEPT !.pc = "link", !.team = t]]
  /\ UNCHANGED <<partVars, event, active, feedbackVars, ledgerVars, specialRewardVote>>

\* prisma.eventParticipant.update({ data: { teamId: team.id, isLeader: true } })
TeamCreateLink(q) ==
  /\ req[q].op = "createTeam" /\ req[q].pc = "link"
  /\ LET u == req[q].user
     IN  IF eventGroup[u] = "NONE" \/ ~TeamFk(teams, req[q].team)
         THEN /\ req' = [req EXCEPT ![q] = Done(req[q], "Internal", None)]
              /\ UNCHANGED <<teamId, isLeader>>
         ELSE /\ teamId' = [teamId EXCEPT ![u] = req[q].team]
              /\ isLeader' = [isLeader EXCEPT ![u] = TRUE]
              /\ req' = [req EXCEPT ![q] = Done(req[q], "ok", None)]
  /\ UNCHANGED <<eventGroup, virtualReward, event, active, feedbackVars, teams, ledgerVars,
                 specialRewardVote>>

\* the lookups and the count of POST /:id/teams/:teamId/members
AddMemberStart(q, actor, t, target) ==
  /\ req[q].op = "idle"
  /\ LET r == [IdleReq EXCEPT !.op = "addMember", !.user = actor, !.team = t,
                              !.payload = target]
     IN  req' = [req EXCEPT ![q] =
           IF eventGroup[actor] = "NONE" \/ teamId[actor] # t \/ ~isLeader[actor]
             THEN Done(r, "Forbidden", None)
           ELSE IF event.maxTeamMembers # None /\ CurrentMembers(t) >= event.maxTeamMembers[1]
             THEN Done(r, "CapacityReached", None)
           ELSE IF eventGroup[target] = "NONE" THEN Done(r, "NotFound", None)
           ELSE IF teamId[target] # Null THEN Done(r, "AlreadyOnTeam", None)
           ELSE IF eventGroup[target] # "PRESENTER" THEN Done(r, "NotPresenter", None)
           ELSE [r EXCEPT !.pc = "update"]]
  /\ UNCHANGED <<partVars, event, active, feedbackVars, teams, ledgerVars, specialRewardVote>>

\* prisma.eventParticipant.update({ where: { id: target.id }, data: { teamId } })
AddMemberWrite(q) ==
  /\ req[q].op = "addMember" /\ req[q].pc = "update"
  /\ LET target == req[q].payload
     IN  IF eventGroup[target] = "NONE" \/ ~TeamFk(teams, req[q].team)
         THEN /\ req' = [req EXCEPT ![q] = Done(req[q], "Internal", None)]
              /\ UNCHANGED teamId
         ELSE /\ teamId' = [teamId EXCEPT ![target] = req[q].team]
              /\ req' = [req EXCEPT ![q] = Done(req[q], "ok", None)]
  /\ UNCHANGED <<eventGroup, isLeader, virtualReward, event, active, feedbackVars, teams,
                 ledgerVars, specialRewardVote>>

CapacityRids == {"c1", "c2", "c3"}

\* an event with maxTeams = 1 and maxTeamMembers = 2, three presenters and no team
InitCapacity ==
  /\ eventGroup = [u \in Users |->
        CASE u = "o1" -> "ORGANIZER" [] u = "g1" -> "GUEST" [] u = "g2" -> "COMMITTEE"
          [] OTHER -> "PRESENTER"]
  /\ isLeader = [u \in Users |-> u = "o1"]
  /\ teamId = [u \in Users |-> Null]
  /\ event \in {[e EXCEPT !.maxTeams = Some(1), !.maxTeamMembers = Some(2)] :
                  e \in {x \in EventRows : ~x.vrTeamCapEnabled}}
  /\ virtualReward = [u \in Users |->
        CASE u = "g1" -> OrElse(event.virtualRewardGuest, 0)
          [] u = "g2" -> OrElse(event.virtualRewardCommittee, 0)
          [] OTHER -> 0]
  /\ active = TRUE
  /\ teams = {}
  /\ teamReward = EmptyBag
  /\ teamRewardCategory = EmptyBag
  /\ specialRewardVote = EmptyBag
  /\ comment = EmptyBag
  /\ eventRating = EmptyBag
  /\ req = [q \in CapacityRids |-> IdleReq]

NextCapacity ==
  \/ \E q \in CapacityRids, actor \in {"p1", "p2", "g1"} : TeamCreateStart(q, actor)
  \/ \E q \in CapacityRids, t \in TeamIds : TeamCreateWrite(q, t)
  \/ \E q \in CapacityRids : TeamCreateLink(q)
  \/ \E q \in CapacityRids, actor \in {"p1", "p2"}, t \in TeamIds, target \in {"p2", "p3", "g1"} :
       AddMemberStart(q, actor, t, target)
  \/ \E q \in CapacityRids : AddMemberWrite(q)

SpecCapacity == InitCapacity /\ [][NextCapacity]_vars

----------------------------------------------------------------------------
(* The gives of two givers, statement by statement, and their resets *)

NextPairs ==
  \/ \E q \in GiveRids, u \in {"g1", "g2"}, t \in TeamIds, payload \in FlatPayloads :
       GiveStart(q, u, t, payload)
  \/ \E q \in GiveRids :
       \/ GiveFindTeam(q) \/ GiveTxCheck(q) \/ GiveTxApply(q) \/ GiveTxCreate(q)
       \/ GiveCommit(q) \/ GiveTxFail(q)
  \/ \E u \in {"g1", "g2"}, t \in TeamIds :
       /\ \A q \in GiveRids : req[q].user = u => req[q].pc = "done"
       /\ Reset(u, t)

SpecPairs == InitTx /\ [][NextPairs]_vars

----------------------------------------------------------------------------
(* Claims on the ledger, one request at a time (Spec) *)

Flat(a) == [mode |-> "flat", amount |-> a, categories |-> <<>>]

\* C1: for every participant, the sum of the flat and of the categorized amounts
\* given across all teams never exceeds participant.virtualReward
C1_AllocationsWithinBudget ==
  \A u \in Users : TotalUsed(Committed, u) <= virtualReward[u]

\* a giver whose allocation was accepted and whose budget is now below it
C1_Overdrawn ==
  \E u \in Users : IsGiver(u) /\ TotalUsed(Committed, u) > virtualReward[u]

\* C9: give, then reset, then the same give again succeeds and reproduces the
\* rows and the totalUsed/totalLimit of the first give
C9_GiveResetGive ==
  \A u \in {"g1", "g2"}, t \in ProjectIds, payload \in Payloads :
    LET v1 == GiveView(Committed, u, t, payload)
        v2 == ResetView(v1, u, t)
    IN  GiveKind(Committed, u, t, payload) = "ok" =>
          /\ GiveKind(v2, u, t, payload) = "ok"
          /\ GiveView(v2, u, t, payload) = v1
          /\ GiveResponse(v2, u, t, payload) = GiveResponse(Committed, u, t, payload)

\* the giver's whole allocation is one flat row of a on team t
OnlyFlat(u, t, a) ==
  /\ Where(teamReward, LAMBDA r : r.giverId = u)
       = SetToBag({[giverId |-> u, teamId |-> t, reward |-> a]})
  /\ Where(teamRewardCategory, LAMBDA r : r.giverId = u) = EmptyBag

\* the per-team cap refuses a give of b by u
CapRefuses(u, b) ==
  event.vrTeamCapEnabled /\ CapOf(Participant(u)) # None /\ b > CapOf(Participant(u))[1]

\* the scenario of C10 from the state after the flat give of a to team A
BudgetReusable(u, A, B, a, b) ==
  LET L == virtualReward[u]
      afterReset == ResetView(Committed, u, A)
  IN  /\ a + b > L =>
            /\ GiveKind(Committed, u, B, Flat(b)) = "InsufficientBalance"
            /\ GiveView(Committed, u, B, Flat(b)) = Committed
      /\ ResetResponse(Committed, u, A) = Response("ok", <<L, 0>>)
      /\ b <= L => GiveResponse(afterReset, u, B, Flat(b)) = Response("ok", <<L, b>>)

\* C10 as stated: with a flat a on team A as the only allocation, a flat give of
\* b to team B with a + b > L is rejected InsufficientBalance and changes nothing,
\* reset on A reports totalUsed = 0, and the give of b <= L to B then succeeds
\* with totalUsed = b
C10_AsStated ==
  \A u \in {"g1", "g2"}, A \in teams, B \in teams, a \in 1..MaxAmount, b \in 0..MaxAmount :
    (A # B /\ IsGiver(u) /\ active /\ OnlyFlat(u, A, a)) => BudgetReusable(u, A, B, a, b)

\* C10 amended: the same, for a give of b the per-team cap does not refuse
C10_BudgetReusable ==
  \A u \in {"g1", "g2"}, A \in teams, B \in teams, a \in 1..MaxAmount, b \in 0..MaxAmount :
    (A # B /\ IsGiver(u) /\ active /\ OnlyFlat(u, A, a) /\ ~CapRefuses(u, b))
      => BudgetReusable(u, A, B, a, b)

\* the scenario's state: g1 holds flat 1 on tA of a budget of 2, and a give of 2
\* to tB is rejected for the balance
C10_Rejected ==
  /\ active /\ IsGiver("g1") /\ OnlyFlat("g1", "tA", 1) /\ virtualReward["g1"] = 2
  /\ ~CapRefuses("g1", 2)
  /\ GiveKind(Committed, "g1", "tB", Flat(2)) = "InsufficientBalance"

----------------------------------------------------------------------------
(* Claims on requests in flight (SpecTx) *)

GaveOk(q) == req[q].op = "give" /\ req[q].pc = "done" /\ req[q].answer.kind = "ok"

\* C2: two give calls of one giver on different teams, their statements
\* interleaved, never both commit when the giver's allocations after both commits
\* exceed participant.virtualReward
C2_NoLostUpdate ==
  (/\ GaveOk("q1") /\ GaveOk("q2")
   /\ req["q1"].user = req["q2"].user /\ req["q1"].team # req["q2"].team)
    => TotalUsed(Committed, req["q1"].user) <= virtualReward[req["q1"].user]

\* both gives answered ok and the giver holds more than the budget
C2_BothCommitted ==
  /\ GaveOk("q1") /\ GaveOk("q2") /\ req["q1"].team # req["q2"].team
  /\ TotalUsed(Committed, "g1") > virtualReward["g1"]

C8_FailedGiveChangesNothing ==
  [][\A q \in GiveRids :
       /\ (req'[q].op = "give" /\ req[q].pc # "done" /\ req'[q].pc = "done"
            /\ req'[q].answer.kind # "ok")
           => UNCHANGED ledgerVars
       /\ (req[q].op = "give" /\ req'[q] # req[q]
            /\ <<teamReward, teamRewardCategory>>' # <<teamReward, teamRewardCategory>>)
           => /\ req[q].pc = "commit" /\ req'[q].answer.kind = "ok"
              /\ teamReward' = (teamReward (-) req[q].del.tr) (+) req[q].ins.tr
              /\ teamRewardCategory' =
                   (teamRewardCategory (-) req[q].del.trc) (+) req[q].ins.trc]_vars

\* a give that was replacing the flat row of tA has failed inside its
\* transaction and the row is still there
C8_FailedInside ==
  \E q \in GiveRids :
    /\ req[q].op = "give" /\ req[q].pc = "done" /\ req[q].answer.kind = "Internal"
    /\ req[q].team = "tA" /\ req[q].payload = Flat(2)
    /\ [giverId |-> "g1", teamId |-> "tA", reward |-> 1] \in RowsOf(teamReward)

\* C17: at most one TeamReward row exists per giver and team, also when two
\* flat gives of one giver for one team both find no row and both create
C17_OneRewardRowPerGiverAndTeam ==
  \A u \in Users, t \in TeamIds :
    BagCardinality(Where(teamReward, LAMBDA r : r.giverId = u /\ r.teamId = t)) <= 1

\* two gives of g1 for one team both found no row and both issued a create; one
\* has committed its row, which refuses the waiting create of the other
C17_SecondCreateRefused ==
  \E q, o \in GiveRids :
    /\ q # o /\ GaveOk(o) /\ req[o].team = req[q].team
    /\ req[q].op = "give" /\ req[q].pc = "blocked"
    /\ \E row \in DOMAIN req[q].ins.tr : RewardClash(teamReward, row) # {}

----------------------------------------------------------------------------
(* Claims on the votes (SpecVotes) *)

\* C3: for every (rewardId, committeeId) pair at most one SpecialRewardVote row
\* exists, under any interleaving of setVotes and resetVotes calls
C3_OneTeamPerReward ==
  \A c \in Users, rid \in Rewards :
    BagCardinality(Where(specialRewardVote,
                         LAMBDA r : r.committeeId = c /\ r.rewardId = rid)) <= 1

\* two calls inserted the same reward for two teams; one committed, the other was
\* refused by the store
C3_DoubleInsertRefused ==
  \E q \in VoteRids, o \in VoteRids :
    /\ req[q].pc = "done" /\ req[q].answer.kind = "ConstraintFailed"
    /\ req[o].pc = "done" /\ req[o].answer.kind = "ok" /\ req[o].team # req[q].team
    /\ req[q].user = "g2" /\ req[o].user = "g2"
    /\ \E rid \in Elems(req[q].payload) :
          VoteRow("g2", req[o].team, rid) \in RowsOf(specialRewardVote)

\* the member u holds a vote on another team than t for a reward of rewardIds
HeldElsewhere(u, t, rewardIds) ==
  \E r \in RowsOf(specialRewardVote) :
    r.committeeId = u /\ r.rewardId \in Elems(rewardIds) /\ r.teamId # t

\* C4: a setVotes call (past its validation) that requests a reward the member
\* holds on a different team fails with RewardAlreadyAssigned (or with the
\* storage error that ends the transaction first) and none of its deletions and
\* insertions takes effect: the votes are as before the call
C4_ConflictAppliesNothing ==
  [][\A q \in VoteRids :
       (/\ req[q].op = "setVotes" /\ req[q].pc = "check" /\ req'[q] # req[q]
        /\ HeldElsewhere(req[q].user, req[q].team, req[q].payload))
         => /\ req'[q].pc = "done"
            /\ req'[q].answer.kind \in {"RewardAlreadyAssigned", "Internal"}
            /\ specialRewardVote' = specialRewardVote]_vars

\* r1 is voted for tA, and a call setting {r1} for tB has been refused
C4_Refused ==
  /\ VoteRow("g2", "tA", "r1") \in RowsOf(specialRewardVote)
  /\ \E q \in VoteRids :
        /\ req[q].pc = "done" /\ req[q].answer.kind = "RewardAlreadyAssigned"
        /\ req[q].team = "tB" /\ req[q].payload = <<"r1">>

----------------------------------------------------------------------------
(* Claims on the leaving-leader cascade (SpecCascade) *)

\* request q is the departure of the leader of its team: the role of the leader
\* presenter leaves PRESENTER, or the team is dissolved
Departure(q) ==
  \/ req[q].op = "deleteTeam" /\ req[q].pc # "idle" /\ req[q].answer.kind # "Forbidden"
  \/ /\ req[q].op = "setRole" /\ req[q].participant # None
     /\ LET existing == req[q].participant[1].existing
        IN  /\ existing.eventGroup = "PRESENTER" /\ existing.isLeader
            /\ existing.teamId # Null
            /\ req[q].payload.eventGroup \in Groups \ {"PRESENTER"}

\* the team of request q is gone and everybody who was on it is detached
Dissolved(q) ==
  /\ req[q].team \notin teams
  /\ \A m \in req[q].members : teamId[m] = Null /\ ~isLeader[m]

\* C5: once the departure of a team's leader has completed, the Team row is gone
\* and every participant who was on the team has teamId = null, isLeader = false
C5_DepartureDissolves ==
  \A q \in CascadeRids :
    (Departure(q) /\ req[q].pc = "done" /\ req[q].answer.kind = "ok") => Dissolved(q)

\* both triggers have completed: p1, leader of tA with member p2, is a guest
\* now, and tB has been dissolved
C5_BothDissolved ==
  /\ Departure("u1") /\ req["u1"].pc = "done" /\ req["u1"].answer.kind = "ok"
  /\ req["u1"].members = {"p1", "p2"} /\ eventGroup["p1"] = "GUEST"
  /\ Departure("d1") /\ req["d1"].pc = "done" /\ req["d1"].answer.kind = "ok"
  /\ req["d1"].members = {"p3"}

\* nothing of the departure q is visible
NotBegun(q) ==
  /\ req[q].team \in teams
  /\ \A m \in req[q].members : teamId[m] = req[q].team
  /\ req[q].op = "setRole" =>
       eventGroup[req[q].participant[1].existing.id] = "PRESENTER"

\* all of the departure q is visible
Complete(q) ==
  /\ Dissolved(q)
  /\ req[q].op = "setRole" =>
       eventGroup[req[q].participant[1].existing.id] = req[q].payload.eventGroup

\* C7: the cascade is atomic with the change that triggers it: at every moment
\* all of a departure is visible or nothing of it is, and nothing of a failed one
C7_CascadeAtomic ==
  \A q \in CascadeRids :
    Departure(q) =>
      /\ NotBegun(q) \/ Complete(q)
      /\ req[q].answer.kind = "Internal" => NotBegun(q)

----------------------------------------------------------------------------
(* Claims on the modes and the rows of a give (Spec) *)

\* C11: no giver has at the same time a TeamReward row and a TeamRewardCategory
\* row in the event
C11_OneModePerGiver ==
  \A u \in Users :
    \/ Where(teamReward, LAMBDA r : r.giverId = u) = EmptyBag
    \/ Where(teamRewardCategory, LAMBDA r : r.giverId = u) = EmptyBag

\* C16: when a participant update changes the eventGroup, the participant is
\* afterwards the giver of no TeamReward, TeamRewardCategory or SpecialRewardVote row
C16_RoleChangePurges ==
  [][\A u \in Users :
       eventGroup'[u] # eventGroup[u]
       => /\ Where(teamReward', LAMBDA r : r.giverId = u) = EmptyBag
          /\ Where(teamRewardCategory', LAMBDA r : r.giverId = u) = EmptyBag
          /\ Where(specialRewardVote', LAMBDA r : r.committeeId = u) = EmptyBag]_vars

\* the giver's flat plus categorized sum on all other teams of the event
OtherTeamsTotal(u, t) ==
  SumBag(Where(teamReward, LAMBDA r : r.giverId = u /\ r.teamId # t), LAMBDA r : r.reward)
  + SumBag(Where(teamRewardCategory, LAMBDA r : r.giverId = u /\ r.teamId # t),
           LAMBDA r : r.amount)

\* for flat mode the giver's categorized total on this team, for categorized mode 0
ThisTeamTotal(u, t, payload) ==
  IF payload.mode = "flat"
  THEN SumBag(Where(teamRewardCategory, LAMBDA r : r.giverId = u /\ r.teamId = t),
              LAMBDA r : r.amount)
  ELSE 0

\* the answers of the checks that come before the balance check
EarlierChecks ==
  {"InvalidInput", "Forbidden", "EventNotActive", "NotFound", "CategoryNotFound",
   "ExceedsTeamCap"}

\* C19: a give that passes the earlier checks is rejected with
\* InsufficientBalance exactly when otherTeamsTotal + thisTeamTotal(new mode)
\* + totalAmount > participant.virtualReward, and is applied otherwise
C19_BalanceCheck ==
  \A u \in Users, t \in ProjectIds, payload \in Payloads :
    LET kind == GiveKind(Committed, u, t, payload)
        over == OtherTeamsTotal(u, t) + ThisTeamTotal(u, t, payload)
                  + TotalAmount(payload) > virtualReward[u]
    IN  kind \notin EarlierChecks
        => /\ kind = "InsufficientBalance" <=> over
           /\ ~over => /\ kind = "ok"
                       /\ GiveView(Committed, u, t, payload)
                            = GiveApply(Committed, u, t, payload)

\* g1 holds categorized rows on tA that use the budget up: a flat give of 1 to tA
\* is rejected though g1 holds nothing on the other teams, and a flat give of 0
\* is applied
C19_FlatOverCategorized ==
  /\ OtherTeamsTotal("g1", "tA") = 0 /\ virtualReward["g1"] > 0
  /\ ThisTeamTotal("g1", "tA", Flat(1)) = virtualReward["g1"]
  /\ GiveKind(Committed, "g1", "tA", Flat(1)) = "InsufficientBalance"
  /\ GiveKind(Committed, "g1", "tA", Flat(0)) = "ok"

\* C20: after a successful flat give of amount to a team the giver has exactly
\* one TeamReward row for the team, with reward = amount, when amount > 0, none
\* when amount = 0, and no TeamRewardCategory row for the team
C20_FlatGiveRows ==
  \A u \in Users, t \in TeamIds, payload \in FlatPayloads :
    GiveKind(Committed, u, t, payload) = "ok"
    => LET after == GiveView(Committed, u, t, payload)
           flat == Where(after.tr, LAMBDA r : r.giverId = u /\ r.teamId = t)
           categorized == Where(after.trc, LAMBDA r : r.giverId = u /\ r.teamId = t)
       IN  /\ payload.amount > 0
                => flat = SetToBag({[giverId |-> u, teamId |-> t,
                                     reward |-> payload.amount]})
           /\ payload.amount = 0 => flat = EmptyBag
           /\ categorized = EmptyBag

----------------------------------------------------------------------------
(* Claims on the leaders and the members of the teams (SpecTeam) *)

LeadersOf(t) == {m \in Users : eventGroup[m] # "NONE" /\ teamId[m] = t /\ isLeader[m]}

MembersOf(t) == {m \in Users : eventGroup[m] # "NONE" /\ teamId[m] = t}

\* C12: each team has at most one participant whose teamId points to it and
\* whose isLeader is true
C12_AtMostOneLeader == \A t \in teams : Cardinality(LeadersOf(t)) <= 1

\* C13: every Team row has exactly one member with isLeader = true
C13_ExactlyOneLeader == \A t \in teams : Cardinality(LeadersOf(t)) = 1

\* C14: no Team row exists that has no participant whose teamId points to it
C14_NoEmptyTeam == \A t \in teams : MembersOf(t) # {}

----------------------------------------------------------------------------
(* Claims on joining (SpecJoin) *)

\* C15: a join that meets an existing participant of its user, at the existence
\* check or at the create, fails with AlreadyJoined and creates nothing
C15_JoinRefusesExisting ==
  [][\A q \in JoinRids :
       /\ req[q].pc # "done" /\ req'[q].pc = "done"
       /\ req'[q].op = "join" /\ eventGroup[req'[q].user] # "NONE"
       => req'[q].answer.kind = "AlreadyJoined" /\ UNCHANGED partVars]_vars

\* two joins of one user both passed the existence check, and one has created
C15_SecondCreateRefused ==
  \E q, o \in JoinRids :
    /\ q # o /\ req[q].user = req[o].user
    /\ req[q].op = "join" /\ req[q].pc = "done" /\ req[q].answer.kind = "Internal"
    /\ req[o].op = "join" /\ req[o].pc = "done" /\ req[o].answer.kind = "ok"

----------------------------------------------------------------------------
(* Claims on comments and ratings (SpecFeedback) *)

\* C18: there is at most one Comment row per team and user and at most one
\* EventRating row per user
C18_OneRecordPerTarget ==
  /\ \A u \in Users, t \in TeamIds :
        BagCardinality(Where(comment, LAMBDA x : x.userId = u /\ x.teamId = t)) <= 1
  /\ \A u \in Users :
        BagCardinality(Where(eventRating, LAMBDA x : x.userId = u)) <= 1

\* two ratings of one user both found no row; one has created it and the create
\* of the other has been refused
C18_SecondRatingRefused ==
  \E q, o \in FeedbackRids :
    /\ q # o /\ req[q].op = "rate" /\ req[o].op = "rate" /\ req[q].user = req[o].user
    /\ req[o].pc = "done" /\ req[o].answer.kind = "ok"
    /\ req[q].pc = "done" /\ req[q].answer.kind = "Internal"

----------------------------------------------------------------------------
(* Claims on the rows and the answers of give and reset (Spec) *)

\* the amount a categorized payload asks for category c
Requested(payload, c) ==
  SumPairs({<<i, payload.categories[i][2]>> :
              i \in {j \in 1..Len(payload.categories) : payload.categories[j][1] = c}})

\* C21: after a successful categorized give the giver's TeamRewardCategory rows
\* for the team are exactly the requested entries with amount > 0, the giver has
\* no TeamReward row for the team, and the giver's rows for other teams are unchanged
C21_CategorizedGiveRows ==
  \A u \in Users, t \in TeamIds, payload \in CategoryPayloads :
    GiveKind(Committed, u, t, payload) = "ok"
    => LET after == GiveView(Committed, u, t, payload)
       IN  /\ Where(after.trc, LAMBDA r : r.giverId = u /\ r.teamId = t)
                = SetToBag({[giverId |-> u, teamId |-> t, categoryId |-> c,
                             amount |-> Requested(payload, c)] :
                              c \in {d \in CategoryIds : Requested(payload, d) > 0}})
           /\ Where(after.tr, LAMBDA r : r.giverId = u /\ r.teamId = t) = EmptyBag
           /\ Where(after.tr, LAMBDA r : r.giverId = u /\ r.teamId # t)
                = Where(teamReward, LAMBDA r : r.giverId = u /\ r.teamId # t)
           /\ Where(after.trc, LAMBDA r : r.giverId = u /\ r.teamId # t)
                = Where(teamRewardCategory, LAMBDA r : r.giverId = u /\ r.teamId # t)

\* g1 holds a flat row on tA and a categorized row on tB, and a categorized give
\* to tA succeeds
C21_FlatRowReplaced ==
  /\ Where(teamReward, LAMBDA r : r.giverId = "g1" /\ r.teamId = "tA") # EmptyBag
  /\ Where(teamRewardCategory, LAMBDA r : r.giverId = "g1" /\ r.teamId = "tB") # EmptyBag
  /\ GiveKind(Committed, "g1", "tA",
              [mode |-> "categories", amount |-> 0, categories |-> <<<<"c1", 1>>>>]) = "ok"

\* C22: every give that answers ok answers totalUsed <= totalLimit, also when
\* the statements of two gives of one giver are interleaved
C22_UsedWithinLimit ==
  \A q \in GiveRids : GaveOk(q) => req[q].answer.totals[2] <= req[q].answer.totals[1]

\* C23: while the per-team cap is enabled, no giver holds more than the cap of
\* the giver's role on a single team
C23_TeamWithinCap ==
  \A u \in Users, t \in TeamIds :
    (IsGiver(u) /\ event.vrTeamCapEnabled /\ CapOf(Participant(u)) # None)
      => SumBag(Where(teamReward, LAMBDA r : r.giverId = u /\ r.teamId = t),
                LAMBDA r : r.reward)
         + SumBag(Where(teamRewardCategory, LAMBDA r : r.giverId = u /\ r.teamId = t),
                  LAMBDA r : r.amount)
         <= CapOf(Participant(u))[1]

\* C24: after a reset the giver has neither a flat nor a categorized row for the
\* team, the giver's rows for other teams and the rows of other givers are
\* unchanged, and a reset that finds nothing to remove answers NoOp and changes
\* nothing
C24_ResetFrame ==
  \A u \in Users, t \in ProjectIds :
    LET after == ResetView(Committed, u, t)
        kind == ResetResponse(Committed, u, t).kind
        held == \E r \in RowsOf(teamReward) \cup RowsOf(teamRewardCategory) :
                  r.giverId = u /\ r.teamId = t
    IN  (IsGiver(u) /\ active)
        => /\ kind = IF held THEN "ok" ELSE "NoOp"
           /\ Where(after.tr, LAMBDA r : r.giverId = u /\ r.teamId = t) = EmptyBag
           /\ Where(after.trc, LAMBDA r : r.giverId = u /\ r.teamId = t) = EmptyBag
           /\ Where(after.tr, LAMBDA r : ~(r.giverId = u /\ r.teamId = t))
                = Where(teamReward, LAMBDA r : ~(r.giverId = u /\ r.teamId = t))
           /\ Where(after.trc, LAMBDA r : ~(r.giverId = u /\ r.teamId = t))
                = Where(teamRewardCategory, LAMBDA r : ~(r.giverId = u /\ r.teamId = t))
           /\ ~held => after = Committed

\* g1 holds a flat and a categorized row on tA, g1 and g2 hold rows elsewhere,
\* and g1 holds nothing on tB
C24_RowsToKeep ==
  /\ \E r \in RowsOf(teamReward) : r.giverId = "g1" /\ r.teamId = "tA"
  /\ \E r \in RowsOf(teamRewardCategory) : r.giverId = "g1" /\ r.teamId = "tA"
  /\ \E r \in RowsOf(teamReward) : r.giverId = "g2" /\ r.teamId = "tA"
  /\ ResetResponse(Committed, "g1", "tA").kind = "ok"
  /\ ResetResponse(Committed, "g1", "tB").kind = "NoOp"

----------------------------------------------------------------------------
(* Claims on the active window (SpecWindow) *)

\* the request passed the validation of its input and the check of the caller's
\* role, which its handler runs before it looks at the window
PassedEarlierChecks(r) ==
  CASE r.op = "setVotes" -> IsCommittee(r.user)
    [] r.op = "comment" -> r.payload # "" /\ IsGiver(r.user)
    [] r.op = "rate" ->
         r.payload >= MinRating /\ r.payload <= MaxRating /\ eventGroup[r.user] # "NONE"
    [] OTHER -> FALSE

\* C25: outside the active window a give, reset, setVotes, resetVotes, comment or
\* rating call that passes the validation of its input and the check of the
\* caller's role answers EventNotActive, and no call changes a reward, vote,
\* comment or rating row.
C25_OutsideTheWindow ==
  [][~active =>
       /\ UNCHANGED <<ledgerVars, specialRewardVote, feedbackVars>>
       /\ \A u \in Users :
            /\ IsGiver(u) =>
                 /\ ResetKind(Committed, u, "tA") = "EventNotActive"
                 /\ \A payload \in Payloads \ {InvalidPayload} :
                      GiveKind(Committed, u, "tA", payload) = "EventNotActive"
            /\ IsCommittee(u) => ResetVotesKind(u) = "EventNotActive"
       /\ \A q \in WindowRids :
            (req'[q].pc = "done" /\ PassedEarlierChecks(req'[q]))
              => req'[q].answer.kind = "EventNotActive"]_vars

\* outside the window a comment by a guest and a vote by a committee member were
\* both refused
C25_RefusedOutsideTheWindow ==
  /\ ~active
  /\ req["w1"].op = "comment" /\ req["w1"].user = "g1"
  /\ req["w1"].answer.kind = "EventNotActive"
  /\ req["w2"].op = "setVotes" /\ req["w2"].user = "g2"
  /\ req["w2"].answer.kind = "EventNotActive"

\* C25 as stated: outside the window every call answers EventNotActive
C25_EveryCallNotActive ==
  ~active =>
    /\ \A u \in Users :
         /\ ResetKind(Committed, u, "tA") = "EventNotActive"
         /\ ResetVotesKind(u) = "EventNotActive"
         /\ \A payload \in Payloads :
              GiveKind(Committed, u, "tA", payload) = "EventNotActive"
    /\ \A q \in WindowRids :
         req[q].pc = "done" => req[q].answer.kind = "EventNotActive"

----------------------------------------------------------------------------
(* Claims on who holds reward and vote rows (Spec) *)

\* C26: the giver of every TeamReward and TeamRewardCategory row is a current
\* participant with role GUEST or COMMITTEE, and the committee member of every
\* SpecialRewardVote row is a current COMMITTEE participant.
C26_RowsOfGiversOnly ==
  /\ \A x \in RowsOf(teamReward) \cup RowsOf(teamRewardCategory) : IsGiver(x.giverId)
  /\ \A x \in RowsOf(specialRewardVote) : IsCommittee(x.committeeId)

----------------------------------------------------------------------------
(* Claims on the effect of setVotes and resetVotes (SpecVotes) *)

\* the votes of other members and of member u on other teams than t
VotesElsewhere(votes, u, t) ==
  Where(votes, LAMBDA x : ~(x.committeeId = u /\ x.teamId = t))

\* request q commits its transaction with success in this step
VotesCommitted(q) ==
  /\ req[q].op = "setVotes" /\ req[q].pc = "commit"
  /\ req'[q].pc = "done" /\ req'[q].answer.kind = "ok"

\* C27: every successful setVotes leaves the member's votes on other teams and
\* all other members' votes unchanged; and when no other call changed the
\* member's votes on the team under it (at its commit the team holds the votes
\* the call read, and the call deleted every row it read and was not asked to
\* keep), it leaves the member with exactly the requested rewards on the team,
\* one row each.
C27_FullReplace ==
  [][\A q \in VoteRids :
       VotesCommitted(q) =>
         LET r == req[q]
             undisturbed ==
               /\ CurrentRewardIds(specialRewardVote, r.user, r.team) = r.members
               /\ {x.rewardId : x \in DOMAIN r.del} = r.members \ Elems(r.payload)
         IN  /\ VotesElsewhere(specialRewardVote', r.user, r.team)
                  = VotesElsewhere(specialRewardVote, r.user, r.team)
             /\ undisturbed
                  => /\ CurrentRewardIds(specialRewardVote', r.user, r.team)
                          = Elems(r.payload)
                     /\ BagCardinality(specialRewardVote')
                          = BagCardinality(VotesElsewhere(specialRewardVote, r.user, r.team))
                              + Cardinality(Elems(r.payload))]_vars

\* a call that set {r2} on tA succeeded: the member holds r2 and nothing else on
\* tA and still holds r1 on tB, and g1 still holds its vote on tA
C27_Replaced ==
  \E q \in VoteRids :
    /\ req[q].op = "setVotes" /\ req[q].pc = "done" /\ req[q].answer.kind = "ok"
    /\ req[q].team = "tA" /\ req[q].payload = <<"r2">>
    /\ CurrentRewardIds(specialRewardVote, "g2", "tA") = {"r2"}
    /\ VoteRow("g2", "tB", "r1") \in RowsOf(specialRewardVote)
    /\ VoteRow("g1", "tA", "r1") \in RowsOf(specialRewardVote)

\* C27 as stated: after every successful setVotes the member's votes on the
\* team are exactly the requested set
C27_AsStated ==
  [][\A q \in VoteRids :
       VotesCommitted(q) =>
         CurrentRewardIds(specialRewardVote', req[q].user, req[q].team)
           = Elems(req[q].payload)]_vars


\* C28: resetVotes by a committee member inside the active window leaves the
\* member without a vote on the team, and leaves the member's votes on other
\* teams and every other member's votes as they were.
C28_ResetVotesFrame ==
  \A u \in Users, t \in TeamIds :
    LET post == ResetVotesView(specialRewardVote, u, t)
    IN  (IsCommittee(u) /\ active) =>
          /\ CurrentRewardIds(post, u, t) = {}
          /\ VotesElsewhere(post, u, t) = VotesElsewhere(specialRewardVote, u, t)
          /\ post (+) Where(specialRewardVote,
                            LAMBDA x : x.committeeId = u /\ x.teamId = t)
               = specialRewardVote

\* g2 holds votes on both teams and g1 holds a vote on tA: a reset of g2 on tA
\* has rows to delete, rows of g2 to keep and rows of g1 to keep
C28_VotesOnBothTeams ==
  /\ CurrentRewardIds(specialRewardVote, "g2", "tA") # {}
  /\ CurrentRewardIds(specialRewardVote, "g2", "tB") # {}
  /\ CurrentRewardIds(specialRewardVote, "g1", "tA") # {}
  /\ \A q \in VoteRids : req[q].pc = "done"
----------------------------------------------------------------------------
(* Claims on the authority over organizers (SpecRoles) *)

\* the columns of the participant row of pid
ParticipantRow(pid) ==
  <<eventGroup[pid], isLeader[pid], virtualReward[pid], teamId[pid]>>

\* C29: a participant-update turns a participant into an ORGANIZER, or changes
\* the row of an ORGANIZER, only when the actor is an organizer with the leader
\* flag and the target is not the actor; every request that asks for the
\* ORGANIZER role or targets an ORGANIZER, made by an organizer without the leader
\* flag or on oneself, is refused with Forbidden and leaves the row as it was.
C29_OrganizerAuthority ==
  [][\A actor \in {"o1", "g1", "p1"}, pid \in {"o1", "g1", "g2"} :
       LET leading == eventGroup[actor] = "ORGANIZER" /\ isLeader[actor] /\ actor # pid
       IN  /\ (/\ \E body \in {Body(eg, lead, vr, Absent) :
                                 eg \in Groups \cup {Absent}, lead \in {None, Some(TRUE), Some(FALSE)},
                                 vr \in {None, Some(0)}} :
                     UpdateParticipant(actor, pid, body)
               /\ \/ eventGroup'[pid] = "ORGANIZER" /\ eventGroup[pid] # "ORGANIZER"
                  \/ /\ eventGroup[pid] = "ORGANIZER"
                     /\ ParticipantRow(pid)' # ParticipantRow(pid))
                => leading
           /\ \A body \in {Body(eg, lead, None, Absent) :
                             eg \in Groups \cup {Absent}, lead \in {None, Some(TRUE)}} :
                (/\ eventGroup[actor] = "ORGANIZER" /\ eventGroup[pid] # "NONE"
                 /\ body.eventGroup = "ORGANIZER" \/ eventGroup[pid] = "ORGANIZER"
                 /\ ~leading)
                  => UpdateForbidden(actor, isLeader[actor], Existing(pid), body)]_vars

\* a second organizer exists, without the leader flag, next to the leading one,
\* and a giver it could target holds a reward row
C29_SecondOrganizer ==
  /\ eventGroup["g1"] = "ORGANIZER" /\ ~isLeader["g1"]
  /\ eventGroup["o1"] = "ORGANIZER" /\ isLeader["o1"]
  /\ eventGroup["g2"] = "COMMITTEE"


\* C30: a participant-update that is answered Forbidden leaves all state
\* unchanged: the row of the target and every reward and vote row
C30_ForbiddenChangesNothing ==
  [][\A actor \in {"o1", "g1", "p1"}, pid \in {"o1", "g1", "g2"},
        body \in {Body(eg, lead, None, Absent) :
                    eg \in Groups \cup {Absent}, lead \in {None, Some(TRUE), Some(FALSE)}} :
       (/\ UpdateParticipant(actor, pid, body)
        /\ \/ eventGroup[actor] # "ORGANIZER"
           \/ /\ eventGroup[pid] # "NONE"
              /\ UpdateForbidden(actor, isLeader[actor], Existing(pid), body))
         => UNCHANGED vars]_vars


\* the organizers of the event that carry the leader flag
OrganizerLeaders == {u \in Users : eventGroup[u] = "ORGANIZER" /\ isLeader[u]}

\* C31: the event has at most one ORGANIZER with isLeader = true, and the
\* organizer-leader it was created with stays the organizer-leader
C31_OneOrganizerLeader ==
  Cardinality(OrganizerLeaders) <= 1 /\ "o1" \in OrganizerLeaders

----------------------------------------------------------------------------
(* Claims on the capacities of the event (SpecCapacity) *)

\* C32: when Event.maxTeams is set, the number of teams of the event never
\* exceeds it, also when create requests of different participants overlap.
C32_TeamsWithinMax ==
  event.maxTeams # None => Cardinality(teams) <= event.maxTeams[1]

\* C33: when Event.maxTeamMembers is set, no team has more participants than
\* it, also when addMember calls on one team overlap.
C33_MembersWithinMax ==
  event.maxTeamMembers # None =>
    \A t \in TeamIds : CurrentMembers(t) <= event.maxTeamMembers[1]


\* C34: every participant with a non-null teamId has the role PRESENTER, and the
\* team its teamId names exists.
C34_TeamsOfPresentersOnly ==
  \A u \in Users :
    (eventGroup[u] # "NONE" /\ teamId[u] # Null)
      => eventGroup[u] = "PRESENTER" /\ teamId[u] \in teams

----------------------------------------------------------------------------
(* Claims on the removal of a member (SpecTeam) *)

\* C35: removeMember detaches the target, and changes nothing else, when the
\* requester is a member of the team, the requester is the target or the
\* team's leader, and the target is a member of the team without the leader
\* flag; every other call changes nothing.
C35_RemoveMemberAuthority ==
  [][\A actor \in Presenters, target \in Presenters, t \in TeamIds :
       RemoveMember(actor, t, target) =>
         LET allowed == /\ teamId[actor] = t
                        /\ actor = target \/ isLeader[actor]
                        /\ teamId[target] = t /\ ~isLeader[target]
         IN  IF allowed
             THEN /\ teamId' = [teamId EXCEPT ![target] = Null]
                  /\ UNCHANGED <<eventGroup, isLeader, virtualReward, teams, ledgerVars,
                                 specialRewardVote, feedbackVars>>
             ELSE UNCHANGED vars]_vars

\* tA has its leader p1 and the members p2 and p3: p2 may remove itself, p1 may
\* remove p2 or p3, and p2 may not remove p3
C35_ThreeMembers ==
  /\ "tA" \in teams
  /\ teamId["p1"] = "tA" /\ isLeader["p1"]
  /\ teamId["p2"] = "tA" /\ ~isLeader["p2"]
  /\ teamId["p3"] = "tA" /\ ~isLeader["p3"]
  /\ \A m \in Presenters : eventGroup[m] = "PRESENTER"


\* C36: when a member without the leader flag leaves its team through
\* removeMember, a team left empty is deleted, a team left with members and no
\* leader gets one of the remaining members as its leader, and otherwise the
\* team, its remaining members and its leader are unchanged.
C36_DepartureOfMember ==
  [][\A actor \in Presenters, target \in Presenters, t \in TeamIds :
       (/\ RemoveMember(actor, t, target)
        /\ teamId[target] = t /\ teamId'[target] = Null)
         => LET rest == MembersOf(t) \ {target}
            IN  IF rest = {} THEN t \notin teams'
                ELSE IF LeadersOf(t) \ {target} = {}
                  THEN \E m \in rest : isLeader'[m] /\ teamId'[m] = t
                ELSE /\ teams' = teams /\ isLeader' = isLeader
                     /\ \A m \in rest : teamId'[m] = t]_vars

----------------------------------------------------------------------------
(* Claims on the independence of the givers (SpecPairs) *)

\* the rows of the reward tables v that giver u gave, and the rows of the others
RowsOfGiver(v, u) ==
  View(Where(v.tr, LAMBDA r : r.giverId = u), Where(v.trc, LAMBDA r : r.giverId = u))

RowsOfOthers(v, u) ==
  View(Where(v.tr, LAMBDA r : r.giverId # u), Where(v.trc, LAMBDA r : r.giverId # u))

\* C37: a give or reset of a giver never creates, changes or deletes a reward
\* row of another giver, and what it answers (accepted or rejected, and the
\* totals) is what it would answer on the giver's own rows alone, under every
\* interleaving with the gives and resets of the other giver.
C37_GiversIndependent ==
  [][/\ \A q \in GiveRids :
          LET r == req[q]
              own == RowsOfGiver(TxView(q), r.user)
          IN  /\ req'[q] # r
                   => RowsOfOthers(Committed', req'[q].user) = RowsOfOthers(Committed, req'[q].user)
              /\ (r.pc = "check" /\ req'[q].pc = "apply")
                   => GiveCheck(own, r.participant[1], r.team, r.payload) = "ok"
              /\ (r.pc = "check" /\ req'[q].pc = "done" /\ req'[q].answer.kind # "Internal")
                   => req'[q].answer.kind
                        = GiveCheck(own, r.participant[1], r.team, r.payload)
              /\ (r.pc = "apply" /\ req'[q].pc \in {"commit", "blocked"})
                   => req'[q].answer.totals
                        = <<r.participant[1].virtualReward,
                            TotalUsed(GiveApply(own, r.user, r.team, r.payload), r.user)>>
     /\ \A u \in {"g1", "g2"}, t \in TeamIds :
          /\ ResetResponse(Committed, u, t) = ResetResponse(RowsOfGiver(Committed, u), u, t)
          /\ Reset(u, t) => RowsOfOthers(Committed', u) = RowsOfOthers(Committed, u)]_vars

\* gives of both givers to tA overlapped and both committed: each holds its row
C37_BothGave ==
  /\ req["q1"].pc = "done" /\ req["q1"].answer.kind = "ok"
  /\ req["q2"].pc = "done" /\ req["q2"].answer.kind = "ok"
  /\ req["q1"].user # req["q2"].user
  /\ req["q1"].team = "tA" /\ req["q2"].team = "tA"
  /\ \A u \in {"g1", "g2"} :
        \E x \in RowsOf(teamReward) : x.giverId = u /\ x.teamId = "tA"

----------------------------------------------------------------------------
(* Claims on repeated gives (Spec) *)

\* C38: a successful give repeated at once with the same giver, team and
\* payload succeeds again, leaves the reward rows as the first left them and
\* answers the same totalUsed and totalLimit.
C38_GiveIdempotent ==
  \A u \in Users, t \in TeamIds, payload \in Payloads :
    GiveKind(Committed, u, t, payload) = "ok"
    => LET first == GiveView(Committed, u, t, payload)
       IN  /\ GiveKind(first, u, t, payload) = "ok"
           /\ GiveView(first, u, t, payload) = first
           /\ GiveResponse(first, u, t, payload) = GiveResponse(Committed, u, t, payload)

\* g1 holds the flat row of a give of 1 to tA and rows on tB, and the same give
\* of 1 to tA is accepted again
C38_GivenOnce ==
  /\ [giverId |-> "g1", teamId |-> "tA", reward |-> 1] \in RowsOf(teamReward)
  /\ \E x \in RowsOf(teamReward) \cup RowsOf(teamRewardCategory) :
        x.giverId = "g1" /\ x.teamId = "tB"
  /\ GiveKind(Committed, "g1", "tA", Flat(1)) = "ok"

====
